---- MODULE Spec2Model ----
(***************************************************************************)
(* The HTTP traffic sanitizer of the httpclient package: the pattern-based *)
(* Sanitizer (SanitizeBody, SanitizeHeaders and the structural sanitizers) *)
(* and the LoggingRoundTripper that logs every outgoing request/response   *)
(* through it.                                                             *)
(*                                                                         *)
(* Text is modelled byte by byte: a Go string or []byte is a sequence of   *)
(* one-character strings, so that len, slicing, searching, escaping and    *)
(* pattern matching are computed the way the code computes them.           *)
(***************************************************************************)
EXTENDS Integers, Sequences, FiniteSets, TLC

(***************************************************************************)
(* Of the Go runtime the model keeps mapOrder: the order in which a range  *)
(* statement visits the keys of a map.                                     *)
(***************************************************************************)
VARIABLE mapOrder


(***************************************************************************)
(* Bytes.  Ascii lists, in byte order, the characters the model's texts    *)
(* are written in; byte comparisons (sort.Strings) follow this order.      *)
(***************************************************************************)
Ascii ==
  <<"\t","\n","\r"," ","!","\"","#","$","%","&","'","(",")","*","+",",","-",".","/",
    "0","1","2","3","4","5","6","7","8","9",":",";","<","=",">","?","@",
    "A","B","C","D","E","F","G","H","I","J","K","L","M","N","O","P","Q","R","S","T","U","V","W","X","Y","Z",
    "[","\\","]","_",
    "a","b","c","d","e","f","g","h","i","j","k","l","m","n","o","p","q","r","s","t","u","v","w","x","y","z",
    "{","|","}","~">>

Chars == {Ascii[i] : i \in 1..Len(Ascii)}

CharCode == [c \in Chars |-> CHOOSE i \in 1..Len(Ascii) : Ascii[i] = c]

UpperSeq == <<"A","B","C","D","E","F","G","H","I","J","K","L","M","N","O","P","Q","R","S","T","U","V","W","X","Y","Z">>
LowerSeq == <<"a","b","c","d","e","f","g","h","i","j","k","l","m","n","o","p","q","r","s","t","u","v","w","x","y","z">>

Uppers == {UpperSeq[i] : i \in 1..26}
Lowers == {LowerSeq[i] : i \in 1..26}
Digits == {"0","1","2","3","4","5","6","7","8","9"}
Letters == Uppers \cup Lowers

LowerOf == [c \in Chars |-> IF c \in Uppers
                            THEN LowerSeq[CHOOSE i \in 1..26 : UpperSeq[i] = c]
                            ELSE c]
UpperOf == [c \in Chars |-> IF c \in Lowers
                            THEN UpperSeq[CHOOSE i \in 1..26 : LowerSeq[i] = c]
                            ELSE c]

\* unicode.IsSpace restricted to the bytes of Ascii
Spaces == {" ", "\t", "\n", "\r"}

(***************************************************************************)
(* package strings                                                         *)
(***************************************************************************)
ToLower(s) == [i \in 1..Len(s) |-> LowerOf[s[i]]]

\* s[a:b] of Go (0-based, half-open) is Slice(s, a, b)
Slice(s, a, b) == SubSeq(s, a + 1, b)

HasPrefixAt(s, i, p) ==
  /\ i + Len(p) <= Len(s)
  /\ \A k \in 1..Len(p) : s[i + k] = p[k]

HasPrefix(s, p) == HasPrefixAt(s, 0, p)
HasSuffix(s, p) == Len(p) <= Len(s) /\ HasPrefixAt(s, Len(s) - Len(p), p)

\* strings.Index: the 0-based offset of the first occurrence, or -1
Index(s, sub) ==
  IF \E i \in 0..(Len(s) - Len(sub)) : HasPrefixAt(s, i, sub)
  THEN CHOOSE i \in 0..(Len(s) - Len(sub)) :
         /\ HasPrefixAt(s, i, sub)
         /\ \A j \in 0..(i - 1) : ~HasPrefixAt(s, j, sub)
  ELSE -1

Contains(s, sub) == Index(s, sub) >= 0

TrimSpace(s) ==
  IF \A i \in 1..Len(s) : s[i] \in Spaces THEN <<>>
  ELSE LET a == CHOOSE i \in 1..Len(s) : s[i] \notin Spaces /\ \A j \in 1..(i - 1) : s[j] \in Spaces
           b == CHOOSE i \in 1..Len(s) : s[i] \notin Spaces /\ \A j \in (i + 1)..Len(s) : s[j] \in Spaces
       IN SubSeq(s, a, b)

\* parts[lo] \o ... \o parts[hi], by halves
RECURSIVE ConcatRange(_, _, _)
ConcatRange(parts, lo, hi) ==
  IF lo > hi THEN <<>>
  ELSE IF lo = hi THEN parts[lo]
  ELSE LET mid == (lo + hi) \div 2
       IN ConcatRange(parts, lo, mid) \o ConcatRange(parts, mid + 1, hi)

\* the concatenation of a sequence of strings
Concat(parts) == ConcatRange(parts, 1, Len(parts))

\* strings.Join
Join(parts, sep) ==
  Concat([i \in 1..Len(parts) |-> IF i = 1 THEN parts[i] ELSE sep \o parts[i]])

\* byte-wise comparison of two strings (the order of sort.Strings)
StrLess(a, b) ==
  LET n == IF Len(a) < Len(b) THEN Len(a) ELSE Len(b)
  IN IF \E i \in 1..n : a[i] # b[i]
     THEN LET d == CHOOSE i \in 1..n : a[i] # b[i] /\ \A j \in 1..(i - 1) : a[j] = b[j]
          IN CharCode[a[d]] < CharCode[b[d]]
     ELSE Len(a) < Len(b)

\* the strings of a finite set in increasing byte order
RECURSIVE SortStrings(_)
SortStrings(S) ==
  IF S = {} THEN <<>>
  ELSE LET m == CHOOSE x \in S : \A y \in S \ {x} : StrLess(x, y)
       IN <<m>> \o SortStrings(S \ {m})

\* sort.Strings: keys in increasing byte order
\* a faulty variant of sortStrings that leaves the keys as they came: the
\* determinism property must tell it from the code
unsortedStrings(keys) == keys

sortStrings(keys) == SortStrings({keys[i] : i \in 1..Len(keys)})

\* The order in which a range statement visits the keys of a map.  Go leaves
\* it unspecified and varies it from one run to the next; in the model a run
\* visits the keys in increasing or in decreasing byte order.
MapOrders == {"increasing", "decreasing"}

\* for key := range m: the keys of the set S in the order they are visited
Range(S) ==
  IF mapOrder = "increasing" THEN SortStrings(S)
  ELSE [i \in 1..Cardinality(S) |-> SortStrings(S)[Cardinality(S) + 1 - i]]

\* for key := range m { result[key] = value[key] }: the map result after the
\* loop, which visited keys in order
RECURSIVE RangeAssign(_, _, _)
RangeAssign(keys, value, result) ==
  IF Len(keys) = 0 THEN result
  ELSE RangeAssign(Tail(keys), value,
                   [x \in DOMAIN result \cup {keys[1]} |->
                      IF x = keys[1] THEN value[keys[1]] ELSE result[x]])

(***************************************************************************)
(* package regexp.  A compiled pattern is a sequence of items:             *)
(*   [k |-> "lit", str, fold]      a literal (fold: under the (?i) flag)   *)
(*   [k |-> "cls", set, min, max]  a character class repeated min..max     *)
(*                                 times, greedy (max = -1: unbounded)     *)
(*   [k |-> "open", g], [k |-> "close", g]   the brackets of group g       *)
(*   [k |-> "alt", alts]           alternatives tried in written order     *)
(*   [k |-> "wb"]                  \b                                      *)
(* Matching is leftmost-first with backtracking, as Go's regexp does for   *)
(* these (non-POSIX) patterns.                                             *)
(***************************************************************************)
Cls(set, min, max) == [k |-> "cls", set |-> set, min |-> min, max |-> max]
One(set) == <<Cls(set, 1, 1)>>
Opt(set) == <<Cls(set, 0, 1)>>
Star(set) == <<Cls(set, 0, -1)>>
Plus(set) == <<Cls(set, 1, -1)>>
Rep(set, n) == <<Cls(set, n, n)>>
AtLeast(set, n) == <<Cls(set, n, -1)>>
Open(g) == <<[k |-> "open", g |-> g]>>
Close(g) == <<[k |-> "close", g |-> g]>>
Alt(alts) == <<[k |-> "alt", alts |-> alts]>>
WordBoundary == <<[k |-> "wb"]>>

\* a literal, and a literal under the (?i) flag
Lit(str) == <<[k |-> "lit", str |-> str, fold |-> FALSE]>>
LitI(str) == <<[k |-> "lit", str |-> str, fold |-> TRUE]>>

\* whether the literal str stands in s at offset i
LitAt(s, i, str, fold) ==
  /\ i + Len(str) <= Len(s)
  /\ \A j \in 1..Len(str) :
       IF fold THEN LowerOf[s[i + j]] = LowerOf[str[j]] ELSE s[i + j] = str[j]

Not(set) == Chars \ set
WordChars == Letters \cup Digits \cup {"_"}

\* the most groups any pattern of the package has
NumGroups == 3

NoCaps == [g \in 1..NumGroups |-> <<-1, -1>>]
NoMatch == [ok |-> FALSE, end |-> -1, caps |-> NoCaps]

IsWordAt(s, i) == i >= 1 /\ i <= Len(s) /\ s[i] \in WordChars

\* how many bytes from offset i on lie in set, at most max of them
RunLen(s, i, set, max) ==
  LET cap == IF max < 0 \/ max > Len(s) - i THEN Len(s) - i ELSE max
  IN CHOOSE n \in 0..cap :
       /\ \A j \in 1..n : s[i + j] \in set
       /\ (n = cap \/ s[i + n + 1] \notin set)

RECURSIVE MatchSeq(_, _, _, _)
RECURSIVE TryAlt(_, _, _, _, _, _)

\* items matched against s from offset i on: the first match in preference order
MatchSeq(items, s, i, caps) ==
  IF Len(items) = 0 THEN [ok |-> TRUE, end |-> i, caps |-> caps]
  ELSE LET it == Head(items)
           rest == Tail(items)
       IN CASE it.k = "lit" ->
                 IF LitAt(s, i, it.str, it.fold)
                 THEN MatchSeq(rest, s, i + Len(it.str), caps)
                 ELSE NoMatch
            [] it.k = "cls" ->
                 \* a greedy repetition: the longest run the rest can follow
                 (LET run == RunLen(s, i, it.set, it.max)
                      fits == {n \in it.min..run : MatchSeq(rest, s, i + n, caps).ok}
                  IN IF fits = {} THEN NoMatch
                     ELSE MatchSeq(rest, s, i + (CHOOSE n \in fits : \A o \in fits : o <= n), caps))
            [] it.k = "open" ->
                 MatchSeq(rest, s, i, [caps EXCEPT ![it.g] = <<i, -1>>])
            [] it.k = "close" ->
                 MatchSeq(rest, s, i, [caps EXCEPT ![it.g] = <<@[1], i>>])
            [] it.k = "wb" ->
                 IF IsWordAt(s, i) # IsWordAt(s, i + 1)
                 THEN MatchSeq(rest, s, i, caps)
                 ELSE NoMatch
            [] it.k = "alt" ->
                 TryAlt(it.alts, 1, rest, s, i, caps)

TryAlt(alts, k, rest, s, i, caps) ==
  IF k > Len(alts) THEN NoMatch
  ELSE LET r == MatchSeq(alts[k] \o rest, s, i, caps)
       IN IF r.ok THEN r ELSE TryAlt(alts, k + 1, rest, s, i, caps)

MatchAt(re, s, i) == MatchSeq(re, s, i, NoCaps)

\* the least of a set of offsets, or -1 when there is none
First(offsets) ==
  IF offsets = {} THEN -1 ELSE CHOOSE p \in offsets : \A q \in offsets : p <= q

\* the offset of the leftmost match starting at or after pos, or -1
FindFrom(re, s, pos) == First({p \in pos..Len(s) : MatchAt(re, s, p).ok})

\* regexp.MatchString
Matches(re, s) == FindFrom(re, s, 0) >= 0

\* the reference read from t, the text after a '$' (and after its '{' when
\* brace holds), whose name is the first i bytes of t.  The package's patterns
\* have at most NumGroups groups, none named: a one-digit name is a group
\* number, any other name names no group (num = -1)
ExtractRef(t, brace, i) ==
  IF i = 0 THEN [ok |-> FALSE]
  ELSE IF brace /\ (i >= Len(t) \/ t[i + 1] # "}") THEN [ok |-> FALSE]
  ELSE [ok |-> TRUE,
        num |-> IF i = 1 /\ t[1] \in Digits THEN CharCode[t[1]] - CharCode["0"] ELSE -1,
        rest |-> SubSeq(t, (IF brace THEN i + 1 ELSE i) + 1, Len(t))]

\* regexp's extract: the group reference that follows a '$' of a template
Extract(str) ==
  IF Len(str) = 0 THEN [ok |-> FALSE]
  ELSE IF str[1] = "{" THEN ExtractRef(Tail(str), TRUE, RunLen(Tail(str), 0, WordChars, -1))
  ELSE ExtractRef(str, FALSE, RunLen(str, 0, WordChars, -1))

\* the text of group num of match m (which began at offset start) in s
GroupText(s, start, m, num) ==
  IF num = 0 THEN Slice(s, start, m.end)
  ELSE IF num >= 1 /\ num <= NumGroups /\ m.caps[num][1] >= 0 /\ m.caps[num][2] >= 0
  THEN Slice(s, m.caps[num][1], m.caps[num][2])
  ELSE <<>>

RECURSIVE Expand(_, _, _, _)
RECURSIVE ExpandRef(_, _, _, _, _)

\* regexp's expand: the template with its $name and ${name} references replaced
Expand(template, s, start, m) ==
  LET d == Index(template, <<"$">>)
  IN IF d < 0 THEN template
     ELSE IF d + 1 < Len(template) /\ template[d + 2] = "$"
     THEN Slice(template, 0, d + 1) \o Expand(Slice(template, d + 2, Len(template)), s, start, m)
     ELSE Slice(template, 0, d)
            \o ExpandRef(Slice(template, d + 1, Len(template)),
                         Extract(Slice(template, d + 1, Len(template))), s, start, m)

\* the expansion of after, the text behind a '$', whose reference is ex
ExpandRef(after, ex, s, start, m) ==
  IF ~ex.ok THEN <<"$">> \o Expand(after, s, start, m)
  ELSE GroupText(s, start, m, ex.num) \o Expand(ex.rest, s, start, m)

RECURSIVE ReplaceFrom(_, _, _, _)
RECURSIVE ReplaceAt(_, _, _, _, _)
RECURSIVE ReplaceMatch(_, _, _, _, _)

\* Regexp.ReplaceAllString, from offset pos on
ReplaceFrom(re, s, pos, template) == ReplaceAt(re, s, pos, template, FindFrom(re, s, pos))

\* the same, the leftmost match from pos on starting at p (-1: there is none)
ReplaceAt(re, s, pos, template, p) ==
  IF p < 0 THEN Slice(s, pos, Len(s))
  ELSE CHOOSE result \in {Slice(s, pos, p) \o ReplaceMatch(re, s, p, template, m) :
                            m \in {MatchAt(re, s, p)}} : TRUE

\* the replacement of match m at p and of the matches after it; after an empty
\* match the next byte is copied
ReplaceMatch(re, s, p, template, m) ==
  Expand(template, s, p, m)
    \o (IF m.end > p THEN ReplaceFrom(re, s, m.end, template)
        ELSE IF p < Len(s) THEN <<s[p + 1]>> \o ReplaceFrom(re, s, p + 1, template)
        ELSE <<>>)

ReplaceAllString(re, s, template) == ReplaceFrom(re, s, 0, template)

(***************************************************************************)
(* DefaultSanitizerConfig().SensitivePatterns, in declared order.  A       *)
(* configuration holds its patterns by name; Pattern gives the compiled    *)
(* expression.                                                             *)
(***************************************************************************)
Alnum == Letters \cup Digits
\* \s of the pattern syntax, restricted to the bytes of Ascii
ReSpace == {" ", "\t", "\n", "\r"}
Quotes == {"\"", "'"}

\* (?i)(bearer\s+)[a-zA-Z0-9\-._~+/]+=*
ReBearer ==
  Open(1) \o LitI(<<"b","e","a","r","e","r">>) \o Plus(ReSpace) \o Close(1)
    \o Plus(Alnum \cup {"-", ".", "_", "~", "+", "/"}) \o Star({"="})

\* (?i)(api[_-]?key["']?\s*[:=]\s*["']?)[a-zA-Z0-9\-_]{20,}
ReAPIKey ==
  Open(1) \o LitI(<<"a","p","i">>) \o Opt({"_", "-"}) \o LitI(<<"k","e","y">>) \o Opt(Quotes)
    \o Star(ReSpace) \o One({":", "="}) \o Star(ReSpace) \o Opt(Quotes) \o Close(1)
    \o AtLeast(Alnum \cup {"-", "_"}, 20)

\* (?i)(x-api-key:\s*)[a-zA-Z0-9\-_]{20,}
ReXAPIKey ==
  Open(1) \o LitI(<<"x","-","a","p","i","-","k","e","y",":">>) \o Star(ReSpace) \o Close(1)
    \o AtLeast(Alnum \cup {"-", "_"}, 20)

\* (AKIA[0-9A-Z]{16})
ReAWSAccessKey ==
  Open(1) \o Lit(<<"A","K","I","A">>) \o Rep(Digits \cup Uppers, 16) \o Close(1)

\* (?i)(aws[_-]?secret[_-]?access[_-]?key["']?\s*[:=]\s*["']?)([a-zA-Z0-9/+=]{40})
ReAWSSecret ==
  Open(1) \o LitI(<<"a","w","s">>) \o Opt({"_", "-"}) \o LitI(<<"s","e","c","r","e","t">>) \o Opt({"_", "-"})
    \o LitI(<<"a","c","c","e","s","s">>) \o Opt({"_", "-"}) \o LitI(<<"k","e","y">>) \o Opt(Quotes)
    \o Star(ReSpace) \o One({":", "="}) \o Star(ReSpace) \o Opt(Quotes) \o Close(1)
    \o Open(2) \o Rep(Alnum \cup {"/", "+", "="}, 40) \o Close(2)

\* (AIza[0-9A-Za-z\-_]{35})
ReGoogleKey ==
  Open(1) \o Lit(<<"A","I","z","a">>) \o Rep(Alnum \cup {"-", "_"}, 35) \o Close(1)

\* (gh[ps]_[a-zA-Z0-9]{36})
ReGitHubToken ==
  Open(1) \o Lit(<<"g","h">>) \o One({"p", "s"}) \o Lit(<<"_">>) \o Rep(Alnum, 36) \o Close(1)

\* (eyJ[a-zA-Z0-9_-]*\.eyJ[a-zA-Z0-9_-]*\.[a-zA-Z0-9_-]*)
ReJWT ==
  Open(1) \o Lit(<<"e","y","J">>) \o Star(Alnum \cup {"_", "-"}) \o Lit(<<".","e","y","J">>)
    \o Star(Alnum \cup {"_", "-"}) \o Lit(<<".">>) \o Star(Alnum \cup {"_", "-"}) \o Close(1)

\* -----BEGIN (RSA |EC |OPENSSH )?PRIVATE KEY-----
RePrivateKey ==
  Lit(<<"-","-","-","-","-","B","E","G","I","N"," ">>)
    \o Alt(<<Open(1) \o Alt(<<Lit(<<"R","S","A"," ">>), Lit(<<"E","C"," ">>), Lit(<<"O","P","E","N","S","S","H"," ">>)>>) \o Close(1),
             <<>>>>)
    \o Lit(<<"P","R","I","V","A","T","E"," ","K","E","Y","-","-","-","-","-">>)

\* \b(?:4[0-9]{12}(?:[0-9]{3})?|5[1-5][0-9]{14}|3[47][0-9]{13}
\*    |3(?:0[0-5]|[68][0-9])[0-9]{11}|6(?:011|5[0-9]{2})[0-9]{12})\b
ReCreditCard ==
  WordBoundary
    \o Alt(<<Lit(<<"4">>) \o Rep(Digits, 12) \o Alt(<<Rep(Digits, 3), <<>>>>),
             Lit(<<"5">>) \o One({"1", "2", "3", "4", "5"}) \o Rep(Digits, 14),
             Lit(<<"3">>) \o One({"4", "7"}) \o Rep(Digits, 13),
             Lit(<<"3">>) \o Alt(<<Lit(<<"0">>) \o One({"0", "1", "2", "3", "4", "5"}),
                                One({"6", "8"}) \o One(Digits)>>) \o Rep(Digits, 11),
             Lit(<<"6">>) \o Alt(<<Lit(<<"0","1","1">>), Lit(<<"5">>) \o Rep(Digits, 2)>>) \o Rep(Digits, 12)>>)
    \o WordBoundary

Pattern(name) ==
  CASE name = "bearer" -> ReBearer
    [] name = "api_key" -> ReAPIKey
    [] name = "x_api_key" -> ReXAPIKey
    [] name = "aws_access_key" -> ReAWSAccessKey
    [] name = "aws_secret" -> ReAWSSecret
    [] name = "google_key" -> ReGoogleKey
    [] name = "github_token" -> ReGitHubToken
    [] name = "jwt" -> ReJWT
    [] name = "private_key" -> RePrivateKey
    [] name = "credit_card" -> ReCreditCard

DefaultSensitivePatterns ==
  <<"bearer", "api_key", "x_api_key", "aws_access_key", "aws_secret", "google_key",
    "github_token", "jwt", "private_key", "credit_card">>

\* the replacement template of sanitizeText and sanitizeXML: "$1" + s.config.Mask
MaskTemplate(cfg) == <<"$", "1">> \o cfg.Mask

\* the first pattern from lo on that matches in text (-1: none); the turn of
\* any other pattern leaves the text as it is
nextPattern(names, lo, text) ==
  First({k \in lo..Len(names) : Matches(Pattern(names[k]), text)})

RECURSIVE ApplyPatternsFrom(_, _, _, _)
RECURSIVE ApplyPatternAt(_, _, _, _)

\* the loop over the patterns from lo on: every pattern in turn over the
\* result of the last
ApplyPatternsFrom(cfg, names, lo, text) ==
  ApplyPatternAt(cfg, names, nextPattern(names, lo, text), text)

\* the same, pattern k being the next that matches
ApplyPatternAt(cfg, names, k, text) ==
  IF k < 0 THEN text
  ELSE CHOOSE result \in {ApplyPatternsFrom(cfg, names, k + 1, replaced) :
                            replaced \in {ReplaceAllString(Pattern(names[k]), text, MaskTemplate(cfg))}} : TRUE

ApplyPatterns(cfg, names, text) == ApplyPatternsFrom(cfg, names, 1, text)

\* Sanitizer.sanitizeText
sanitizeText(cfg, text) == ApplyPatterns(cfg, cfg.SensitivePatterns, text)

(***************************************************************************)
(* package encoding/json.  A decoded value (Go's interface{}) is one of    *)
(*   [t |-> "obj", m |-> function from keys to values]                     *)
(*   [t |-> "arr", a |-> sequence of values]                               *)
(*   [t |-> "str", s |-> text]      [t |-> "bool", b |-> BOOLEAN]          *)
(*   [t |-> "num", n |-> numeral, lit |-> numeral]       [t |-> "null"]    *)
(* A number is a float64: n is the numeral the encoder writes for it.  The *)
(* numeral it was read from is kept beside it as lit, which no operation   *)
(* of the package reads.  The numbers of the model's texts are integers.   *)
(***************************************************************************)
JStr(s) == [t |-> "str", s |-> s]
JNum(n, lit) == [t |-> "num", n |-> n, lit |-> lit]
JBool(b) == [t |-> "bool", b |-> b]
JNull == [t |-> "null"]
JArr(a) == [t |-> "arr", a |-> a]
JObj(m) == [t |-> "obj", m |-> m]

JSONSpace == {" ", "\t", "\n", "\r"}

ParseFail == [ok |-> FALSE, v |-> JNull, pos |-> 0]
Parsed(v, pos) == [ok |-> TRUE, v |-> v, pos |-> pos]

\* the first position at or after p that holds no white space (Len(s) + 1: none)
SkipWS(s, p) ==
  IF \E i \in p..Len(s) : s[i] \notin JSONSpace
  THEN CHOOSE i \in p..Len(s) : s[i] \notin JSONSpace /\ \A j \in p..(i - 1) : s[j] \in JSONSpace
  ELSE Len(s) + 1

\* the \uXXXX escapes the encoder writes (its HTML-safe escapes)
UnicodeEscapes == <<[hex |-> <<"0","0","3","c">>, ch |-> "<"], [hex |-> <<"0","0","3","e">>, ch |-> ">"],
                    [hex |-> <<"0","0","2","6">>, ch |-> "&"]>>

\* how many backslashes stand directly before position i, from position lo on
BackslashesBefore(s, i, lo) ==
  CHOOSE n \in 0..(i - lo) :
    /\ \A j \in 1..n : s[i - j] = "\\"
    /\ (n = i - lo \/ s[i - n - 1] # "\\")

\* position i of a string literal that began at lo follows an escaping backslash
Escaped(s, i, lo) == BackslashesBefore(s, i, lo) % 2 = 1

\* position i is one of the four hex digits of a \u escape
InUnicodeEscape(s, i, lo) ==
  \E j \in 1..4 : i - j >= lo /\ s[i - j] = "u" /\ Escaped(s, i - j, lo)

\* what position i of a string literal decodes to: a byte ("" for none) or "bad"
DecodeAt(s, i, lo) ==
  IF Escaped(s, i, lo)
  THEN CASE s[i] \in {"\"", "\\", "/"} -> s[i]
         [] s[i] = "n" -> "\n"
         [] s[i] = "t" -> "\t"
         [] s[i] = "r" -> "\r"
         [] s[i] = "u" ->
              IF \E k \in 1..Len(UnicodeEscapes) : HasPrefixAt(s, i, UnicodeEscapes[k].hex)
              THEN UnicodeEscapes[CHOOSE k \in 1..Len(UnicodeEscapes) :
                                    HasPrefixAt(s, i, UnicodeEscapes[k].hex)].ch
              ELSE "bad"
         [] OTHER -> "bad"
  ELSE IF s[i] = "\\" \/ InUnicodeEscape(s, i, lo) THEN ""
  ELSE IF s[i] \in {"\n", "\t", "\r"} THEN "bad"
  ELSE s[i]

\* the string literal whose opening quote is at position p - 1
ParseStringBody(s, p) ==
  IF ~\E i \in p..Len(s) : s[i] = "\"" /\ ~Escaped(s, i, p) THEN ParseFail
  ELSE LET e == CHOOSE i \in p..Len(s) :
                  /\ s[i] = "\"" /\ ~Escaped(s, i, p)
                  /\ \A j \in p..(i - 1) : ~(s[j] = "\"" /\ ~Escaped(s, j, p))
           decoded == [j \in 1..(e - p) |-> DecodeAt(s, p + j - 1, p)]
       IN IF \E j \in 1..(e - p) : decoded[j] = "bad" THEN ParseFail
          ELSE Parsed(JStr(SelectSeq(decoded, LAMBDA c : c # "")), e + 1)

\* 2^53 and 2^54: up to 2^53 a float64 holds every integer, up to 2^54 the even ones
TwoTo53 == <<"9","0","0","7","1","9","9","2","5","4","7","4","0","9","9","2">>
TwoTo54 == <<"1","8","0","1","4","3","9","8","5","0","9","4","8","1","9","8","4">>

\* a < b for two decimal numerals without sign and leading zeros
NumLess(a, b) == Len(a) < Len(b) \/ (Len(a) = Len(b) /\ StrLess(a, b))

\* the numeral of digits + 1 (digits is not all nines)
Succ(digits) ==
  LET n == Len(digits)
      nines == CHOOSE k \in 0..(n - 1) :
                 /\ \A j \in 1..k : digits[n + 1 - j] = "9"
                 /\ digits[n - k] # "9"
  IN [i \in 1..n |-> IF i > n - nines THEN "0"
                     ELSE IF i = n - nines THEN Ascii[CharCode[digits[i]] + 1]
                     ELSE digits[i]]

\* the integer numeral as encoding/json writes it back after decoding it to a
\* float64 (round to nearest, ties to the even mantissa); numerals beyond 2^54
\* are left as they are: the texts of the model hold none
Float64(digits) ==
  IF ~NumLess(TwoTo53, digits) \/ NumLess(TwoTo54, digits) THEN digits
  ELSE LET n == Len(digits)
           last == CharCode[digits[n]] - CharCode["0"]
           tens == CharCode[digits[n - 1]] - CharCode["0"]
       IN IF last % 2 = 0 THEN digits
          ELSE IF (10 * tens + last - 1) % 4 = 0
          THEN [digits EXCEPT ![n] = Ascii[CharCode[digits[n]] - 1]]
          ELSE Succ(digits)

\* -?(0|[1-9][0-9]*) at position p: the numbers of the model's texts are integers
ParseNumber(s, p) ==
  LET q == IF s[p] = "-" THEN p + 1 ELSE p
      n == RunLen(s, q - 1, Digits, -1)
  IN IF n = 0 THEN ParseFail
     ELSE IF s[q] = "0" /\ n > 1 THEN ParseFail
     ELSE IF q + n <= Len(s) /\ s[q + n] \in {".", "e", "E"} THEN ParseFail
     ELSE Parsed(JNum(SubSeq(s, p, q - 1) \o Float64(SubSeq(s, q, q + n - 1)),
                     SubSeq(s, p, q + n - 1)), q + n)

ParseLiteral(s, p, word, v) ==
  IF HasPrefixAt(s, p - 1, word) THEN Parsed(v, p + Len(word)) ELSE ParseFail

RECURSIVE ParseValue(_, _)
RECURSIVE ParseElements(_, _, _)
RECURSIVE ParseMembers(_, _, _)
RECURSIVE ParseMember(_, _, _)
RECURSIVE NextMember(_, _, _, _)

\* one value, white space before it skipped
ParseValue(s, p) ==
  LET q == SkipWS(s, p)
  IN IF q > Len(s) THEN ParseFail
     ELSE CASE s[q] = "{" ->
                 (LET r == SkipWS(s, q + 1)
                  IN IF r <= Len(s) /\ s[r] = "}" THEN Parsed(JObj(<<>>), r + 1)
                     ELSE ParseMembers(s, q + 1, <<>>))
            [] s[q] = "[" ->
                 (LET r == SkipWS(s, q + 1)
                  IN IF r <= Len(s) /\ s[r] = "]" THEN Parsed(JArr(<<>>), r + 1)
                     ELSE ParseElements(s, q + 1, <<>>))
            [] s[q] = "\"" -> ParseStringBody(s, q + 1)
            [] s[q] \in Digits \cup {"-"} -> ParseNumber(s, q)
            [] s[q] = "t" -> ParseLiteral(s, q, <<"t","r","u","e">>, JBool(TRUE))
            [] s[q] = "f" -> ParseLiteral(s, q, <<"f","a","l","s","e">>, JBool(FALSE))
            [] s[q] = "n" -> ParseLiteral(s, q, <<"n","u","l","l">>, JNull)
            [] OTHER -> ParseFail

\* the elements of an array from position p on, up to its closing bracket
ParseElements(s, p, acc) ==
  LET r == ParseValue(s, p)
  IN IF ~r.ok THEN ParseFail
     ELSE LET q == SkipWS(s, r.pos)
          IN IF q > Len(s) THEN ParseFail
             ELSE IF s[q] = "]" THEN Parsed(JArr(Append(acc, r.v)), q + 1)
             ELSE IF s[q] = "," THEN ParseElements(s, q + 1, Append(acc, r.v))
             ELSE ParseFail

\* the members of an object from position p on
ParseMembers(s, p, acc) ==
  LET q == SkipWS(s, p)
  IN IF q > Len(s) \/ s[q] # "\"" THEN ParseFail
     ELSE ParseMember(s, ParseStringBody(s, q + 1), acc)

\* the member whose key was read as key: its colon and its value
ParseMember(s, key, acc) ==
  IF ~key.ok THEN ParseFail
  ELSE LET c == SkipWS(s, key.pos)
       IN IF c > Len(s) \/ s[c] # ":" THEN ParseFail
          ELSE NextMember(s, ParseValue(s, c + 1), key.v.s, acc)

\* the member k whose value was read as r is added (a repeated key keeps its
\* last value); then the object ends or goes on
NextMember(s, r, k, acc) ==
  IF ~r.ok THEN ParseFail
  ELSE LET e == SkipWS(s, r.pos)
       IN IF e > Len(s) THEN ParseFail
          ELSE IF s[e] = "}"
          THEN Parsed(JObj([x \in DOMAIN acc \cup {k} |-> IF x = k THEN r.v ELSE acc[x]]), e + 1)
          ELSE IF s[e] = ","
          THEN ParseMembers(s, e + 1, [x \in DOMAIN acc \cup {k} |-> IF x = k THEN r.v ELSE acc[x]])
          ELSE ParseFail

\* the value read as r is the whole text but for white space
WholeText(s, r) == IF r.ok /\ SkipWS(s, r.pos) = Len(s) + 1 THEN r ELSE ParseFail

\* json.Unmarshal into an interface{}: ok is FALSE when it returns an error
Unmarshal(s) == WholeText(s, ParseValue(s, 1))

\* json.Valid (on the texts of the model, whose numbers are integers a float64
\* has room for, the texts json.Unmarshal decodes)
ValidJSON(s) == Unmarshal(s).ok

\* the encoder's string literal: quotes, backslashes, control bytes and <, >, & escaped
EscapeChar(c) ==
  CASE c = "\"" -> <<"\\","\"">>
    [] c = "\\" -> <<"\\","\\">>
    [] c = "\n" -> <<"\\","n">>
    [] c = "\r" -> <<"\\","r">>
    [] c = "\t" -> <<"\\","t">>
    [] c = "<" -> <<"\\","u","0","0","3","c">>
    [] c = ">" -> <<"\\","u","0","0","3","e">>
    [] c = "&" -> <<"\\","u","0","0","2","6">>
    [] OTHER -> <<c>>

EscapeString(s) == Concat([i \in 1..Len(s) |-> EscapeChar(s[i])])

\* a faulty variant of EncodeString that escapes nothing: the validity property
\* must tell it from the code
EncodeStringUnescaped(s) == <<"\"">> \o s \o <<"\"">>

EncodeString(s) == <<"\"">> \o EscapeString(s) \o <<"\"">>

RECURSIVE Indentation(_, _)
Indentation(indent, depth) ==
  IF depth = 0 THEN <<>> ELSE indent \o Indentation(indent, depth - 1)

RECURSIVE MarshalValue(_, _, _)
RECURSIVE MarshalElements(_, _, _, _)
RECURSIVE MarshalMembers(_, _, _, _)

\* the encoding of v at nesting depth, each level indented by indent
MarshalValue(v, indent, depth) ==
  CASE v.t = "str" -> EncodeString(v.s)
    [] v.t = "num" -> v.n
    [] v.t = "bool" -> IF v.b THEN <<"t","r","u","e">> ELSE <<"f","a","l","s","e">>
    [] v.t = "null" -> <<"n","u","l","l">>
    [] v.t = "arr" ->
         IF Len(v.a) = 0 THEN <<"[","]">>
         ELSE <<"[", "\n">> \o MarshalElements(v.a, 1, indent, depth + 1)
                \o <<"\n">> \o Indentation(indent, depth) \o <<"]">>
    [] v.t = "obj" ->
         IF DOMAIN v.m = {} THEN <<"{","}">>
         ELSE <<"{", "\n">> \o MarshalMembers(v.m, sortStrings(Range(DOMAIN v.m)), indent, depth + 1)
                \o <<"\n">> \o Indentation(indent, depth) \o <<"}">>

MarshalElements(a, i, indent, depth) ==
  Indentation(indent, depth) \o MarshalValue(a[i], indent, depth)
    \o (IF i = Len(a) THEN <<>>
        ELSE <<",", "\n">> \o MarshalElements(a, i + 1, indent, depth))

\* the members of an object, in increasing key order
MarshalMembers(m, keys, indent, depth) ==
  Indentation(indent, depth) \o EncodeString(keys[1]) \o <<":", " ">>
    \o MarshalValue(m[keys[1]], indent, depth)
    \o (IF Len(keys) = 1 THEN <<>>
        ELSE <<",", "\n">> \o MarshalMembers(m, Tail(keys), indent, depth))

\* json.MarshalIndent(v, "", indent)
MarshalIndent(v, indent) == MarshalValue(v, indent, 0)

(***************************************************************************)
(* package net/url: ParseQuery and Values.Encode                           *)
(***************************************************************************)
\* the byte value of each character of Ascii, in the same order
ByteValues == <<9,10,13,32,33,34,35,36,37,38,39,40,41,42,43,44,45,46,47,48,49,50,51,52,53,54,55,56,57,58,59,60,61,62,63,64,65,66,67,68,69,70,71,72,73,74,75,76,77,78,79,80,81,82,83,84,85,86,87,88,89,90,91,92,93,95,97,98,99,100,101,102,103,104,105,106,107,108,109,110,111,112,113,114,115,116,117,118,119,120,121,122,123,124,125,126>>

ByteOf == [c \in Chars |-> ByteValues[CharCode[c]]]

HexDigits == <<"0","1","2","3","4","5","6","7","8","9","A","B","C","D","E","F">>

IsHex(c) == c \in Digits \cup {"a","b","c","d","e","f","A","B","C","D","E","F"}
UnHex(c) == CHOOSE v \in 0..15 : HexDigits[v + 1] = UpperOf[c]

\* strings.Cut at the first sep
Cut(s, sep) ==
  LET i == Index(s, sep)
  IN IF i < 0 THEN [before |-> s, after |-> <<>>, found |-> FALSE]
     ELSE [before |-> Slice(s, 0, i), after |-> Slice(s, i + Len(sep), Len(s)), found |-> TRUE]

\* url.QueryUnescape: err when a '%' is not followed by two hex digits.  A byte
\* that is no character of Ascii is written '?'
QueryUnescape(s) ==
  IF \E i \in 1..Len(s) :
       s[i] = "%" /\ (i + 2 > Len(s) \/ ~IsHex(s[i + 1]) \/ ~IsHex(s[i + 2]))
  THEN [err |-> TRUE, s |-> <<>>]
  ELSE LET byte(i) == 16 * UnHex(s[i + 1]) + UnHex(s[i + 2])
           decoded == [i \in 1..Len(s) |->
                         IF s[i] = "%"
                         THEN (IF \E x \in Chars : ByteOf[x] = byte(i)
                               THEN CHOOSE x \in Chars : ByteOf[x] = byte(i) ELSE "?")
                         ELSE IF (i > 1 /\ s[i - 1] = "%") \/ (i > 2 /\ s[i - 2] = "%") THEN ""
                         ELSE IF s[i] = "+" THEN " "
                         ELSE s[i]]
       IN [err |-> FALSE, s |-> SelectSeq(decoded, LAMBDA c : c # "")]

\* url.QueryEscape
EscapeByte(c) ==
  IF c \in Alnum \cup {"-", "_", ".", "~"} THEN <<c>>
  ELSE IF c = " " THEN <<"+">>
  ELSE <<"%", HexDigits[(ByteOf[c] \div 16) + 1], HexDigits[(ByteOf[c] % 16) + 1]>>

QueryEscape(s) == Concat([i \in 1..Len(s) |-> EscapeByte(s[i])])

RECURSIVE ParseQueryFrom(_, _, _)
RECURSIVE ParsePair(_, _, _)
RECURSIVE AddPair(_, _, _, _, _)

\* url.ParseQuery: the values parsed (a function from keys to value lists) and
\* whether an error is returned; a bad pair is dropped and parsing goes on
ParseQueryFrom(query, m, err) ==
  IF Len(query) = 0 THEN [m |-> m, err |-> err]
  ELSE ParsePair(Cut(query, <<"&">>), m, err)

\* the pair c.before, cut from the query that goes on with c.after
ParsePair(c, m, err) ==
  IF Contains(c.before, <<";">>) THEN ParseQueryFrom(c.after, m, TRUE)
  ELSE IF Len(c.before) = 0 THEN ParseQueryFrom(c.after, m, err)
  ELSE AddPair(c.after, QueryUnescape(Cut(c.before, <<"=">>).before),
               QueryUnescape(Cut(c.before, <<"=">>).after), m, err)

\* the pair unescaped to key and value
AddPair(rest, key, value, m, err) ==
  IF key.err \/ value.err THEN ParseQueryFrom(rest, m, TRUE)
  ELSE ParseQueryFrom(rest,
                      IF key.s \in DOMAIN m
                      THEN [m EXCEPT ![key.s] = Append(@, value.s)]
                      ELSE m @@ (key.s :> <<value.s>>),
                      err)

ParseQuery(query) == ParseQueryFrom(query, <<>>, FALSE)

RECURSIVE EncodePairs(_, _)
EncodePairs(key, vals) ==
  IF Len(vals) = 0 THEN <<>>
  ELSE <<QueryEscape(key) \o <<"=">> \o QueryEscape(vals[1])>> \o EncodePairs(key, Tail(vals))

RECURSIVE EncodeKeys(_, _)
EncodeKeys(m, keys) ==
  IF Len(keys) = 0 THEN <<>>
  ELSE EncodePairs(keys[1], m[keys[1]]) \o EncodeKeys(m, Tail(keys))

\* Values.Encode: "key=value" pairs joined by '&', the keys collected by a
\* range over the map and sorted
Encode(m) == Join(EncodeKeys(m, sortStrings(Range(DOMAIN m))), <<"&">>)

(***************************************************************************)
(* The sanitizer's configuration (SanitizerConfig) is a record             *)
(*   SensitiveFields, SensitivePatterns, Mask, MaxBodySize, BodyRules,     *)
(*   HeaderMaskMode, SensitiveHeaders                                      *)
(* A body rule is [Condition, Action, Message]; its Condition is one of    *)
(* the predicates of CondHolds, written [k |-> kind, n |-> threshold].     *)
(***************************************************************************)
BodyActionSkip == "skip"
BodyActionTruncate == "truncate"
BodyActionSummarize == "summarize"
BodyActionSanitize == "sanitize"

HeaderMaskFull == "full"
HeaderMaskPartial == "partial"

DefaultSensitiveFields ==
  <<<<"p","a","s","s","w","o","r","d">>,
    <<"p","a","s","s","w","d">>,
    <<"p","w","d">>,
    <<"s","e","c","r","e","t">>,
    <<"t","o","k","e","n">>,
    <<"a","p","i","_","k","e","y">>,
    <<"a","p","i","k","e","y">>,
    <<"a","p","i","_","s","e","c","r","e","t">>,
    <<"a","c","c","e","s","s","_","t","o","k","e","n">>,
    <<"r","e","f","r","e","s","h","_","t","o","k","e","n">>,
    <<"c","l","i","e","n","t","_","s","e","c","r","e","t">>,
    <<"c","l","i","e","n","t","_","i","d">>,
    <<"a","u","t","h","o","r","i","z","a","t","i","o","n">>,
    <<"a","u","t","h">>,
    <<"b","e","a","r","e","r">>,
    <<"s","e","s","s","i","o","n">>,
    <<"s","e","s","s","i","o","n","_","i","d">>,
    <<"c","o","o","k","i","e">>,
    <<"s","s","n">>,
    <<"s","o","c","i","a","l","_","s","e","c","u","r","i","t","y">>,
    <<"p","a","s","s","p","o","r","t">>,
    <<"d","r","i","v","e","r","_","l","i","c","e","n","s","e">>,
    <<"t","a","x","_","i","d">>,
    <<"e","i","n">>,
    <<"v","a","t">>,
    <<"c","r","e","d","i","t","_","c","a","r","d">>,
    <<"c","a","r","d","_","n","u","m","b","e","r">>,
    <<"c","a","r","d","_","n","u","m">>,
    <<"c","v","v">>,
    <<"c","v","c">>,
    <<"p","i","n">>,
    <<"a","c","c","o","u","n","t","_","n","u","m","b","e","r">>,
    <<"r","o","u","t","i","n","g","_","n","u","m","b","e","r">>,
    <<"i","b","a","n">>,
    <<"s","w","i","f","t">>,
    <<"p","r","i","v","a","t","e","_","k","e","y">>,
    <<"p","u","b","l","i","c","_","k","e","y">>,
    <<"e","n","c","r","y","p","t","i","o","n","_","k","e","y">>,
    <<"s","i","g","n","i","n","g","_","k","e","y">>,
    <<"c","e","r","t","i","f","i","c","a","t","e">>,
    <<"c","e","r","t">>,
    <<"k","e","y">>,
    <<"p","e","m">>,
    <<"s","t","r","i","p","e","_","k","e","y">>,
    <<"a","w","s","_","s","e","c","r","e","t">>,
    <<"g","c","p","_","k","e","y">>,
    <<"a","z","u","r","e","_","k","e","y">>,
    <<"w","e","b","h","o","o","k","_","s","e","c","r","e","t">>,
    <<"s","i","g","n","i","n","g","_","s","e","c","r","e","t">>>>

DefaultSensitiveHeaders ==
  <<<<"a","u","t","h","o","r","i","z","a","t","i","o","n">>,
    <<"p","r","o","x","y","-","a","u","t","h","o","r","i","z","a","t","i","o","n">>,
    <<"c","o","o","k","i","e">>,
    <<"s","e","t","-","c","o","o","k","i","e">>,
    <<"x","-","a","p","i","-","k","e","y">>,
    <<"x","-","a","u","t","h","-","t","o","k","e","n">>,
    <<"x","-","a","c","c","e","s","s","-","t","o","k","e","n">>,
    <<"a","p","i","-","k","e","y">>,
    <<"a","p","i","k","e","y">>>>

DefaultMask == <<"*","*","*","R","E","D","A","C","T","E","D","*","*","*">>

Rule(cond, action, message) == [Condition |-> cond, Action |-> action, Message |-> message]
Cond(kind, n) == [k |-> kind, n |-> n]

DefaultBodyRules ==
  <<Rule(Cond("binary", 0), BodyActionSkip, <<"[","B","i","n","a","r","y"," ","c","o","n","t","e","n","t"," ","-"," ","n","o","t"," ","l","o","g","g","e","d","]">>),
    Rule(Cond("base64Over", 1024), BodyActionSkip, <<"[","B","a","s","e","6","4"," ","e","n","c","o","d","e","d"," ","d","a","t","a"," ","-"," ","n","o","t"," ","l","o","g","g","e","d","]">>),
    Rule(Cond("structuredOver", 500 * 1024), BodyActionSummarize, <<>>),
    Rule(Cond("sizeOver", 100 * 1024), BodyActionTruncate, <<>>)>>

DefaultSanitizerConfig ==
  [SensitiveFields |-> DefaultSensitiveFields,
   SensitivePatterns |-> DefaultSensitivePatterns,
   Mask |-> DefaultMask,
   MaxBodySize |-> 100 * 1024,
   BodyRules |-> DefaultBodyRules,
   HeaderMaskMode |-> HeaderMaskPartial,
   SensitiveHeaders |-> DefaultSensitiveHeaders]

\* NewSanitizer: the configuration the sanitizer works with (Nil: no configuration given)
Nil == [nil |-> TRUE]

NewSanitizer(config) ==
  LET c == IF config = Nil THEN DefaultSanitizerConfig ELSE config
  IN IF Len(c.SensitiveHeaders) = 0
     THEN [c EXCEPT !.SensitiveHeaders = DefaultSensitiveHeaders]
     ELSE c

(***************************************************************************)
(* The content classifier                                                  *)
(***************************************************************************)
isJSON(contentType) ==
  LET ct == ToLower(contentType)
  IN \/ Contains(ct, <<"a","p","p","l","i","c","a","t","i","o","n","/","j","s","o","n">>)
     \/ Contains(ct, <<"a","p","p","l","i","c","a","t","i","o","n","/","v","n","d",".","a","p","i","+","j","s","o","n">>)
     \/ Contains(ct, <<"t","e","x","t","/","j","s","o","n">>)
     \/ HasSuffix(ct, <<"+","j","s","o","n">>)

isXML(contentType) ==
  LET ct == ToLower(contentType)
  IN \/ Contains(ct, <<"a","p","p","l","i","c","a","t","i","o","n","/","x","m","l">>)
     \/ Contains(ct, <<"t","e","x","t","/","x","m","l">>)
     \/ HasSuffix(ct, <<"+","x","m","l">>)

isFormURLEncoded(contentType) ==
  Contains(ToLower(contentType), <<"a","p","p","l","i","c","a","t","i","o","n","/","x","-","w","w","w","-","f","o","r","m","-","u","r","l","e","n","c","o","d","e","d">>)

isMultipartForm(contentType) ==
  Contains(ToLower(contentType), <<"m","u","l","t","i","p","a","r","t","/","f","o","r","m","-","d","a","t","a">>)

binaryTypes ==
  <<<<"a","p","p","l","i","c","a","t","i","o","n","/","o","c","t","e","t","-","s","t","r","e","a","m">>, <<"a","p","p","l","i","c","a","t","i","o","n","/","p","d","f">>, <<"i","m","a","g","e","/">>, <<"a","u","d","i","o","/">>, <<"v","i","d","e","o","/">>,
    <<"a","p","p","l","i","c","a","t","i","o","n","/","z","i","p">>, <<"a","p","p","l","i","c","a","t","i","o","n","/","g","z","i","p">>, <<"a","p","p","l","i","c","a","t","i","o","n","/","x","-","t","a","r">>>>

isBinaryContent(contentType) ==
  \E i \in 1..Len(binaryTypes) : Contains(ToLower(contentType), binaryTypes[i])

looksLikeJSON(body) ==
  LET trimmed == TrimSpace(body)
  IN IF Len(trimmed) = 0 THEN FALSE
     ELSE LET first == trimmed[1]
              last == trimmed[Len(trimmed)]
          IN (first = "{" /\ last = "}") \/ (first = "[" /\ last = "]")

looksLikeXML(body) ==
  LET trimmed == TrimSpace(body)
  IN HasPrefix(trimmed, <<"<">>) /\ HasSuffix(trimmed, <<">">>)

base64Chars == Letters \cup Digits \cup {"+", "/", "="}

\* float64(validChars)/float64(len(sample)) > 0.9, in integers
looksLikeBase64(body) ==
  IF Len(body) < 100 THEN FALSE
  ELSE LET n == IF Len(body) > 1000 THEN 1000 ELSE Len(body)
           validChars == Cardinality({i \in 1..n : body[i] \in base64Chars \cup {"\n", "\r"}})
       IN validChars * 10 > 9 * n

\* fmt.Sprintf("%d", n) for n >= 0
RECURSIVE formatInt(_)
formatInt(n) ==
  IF n < 10 THEN <<Ascii[CharCode["0"] + n]>>
  ELSE formatInt(n \div 10) \o <<Ascii[CharCode["0"] + (n % 10)]>>

formatSize(size) ==
  IF size < 1024 THEN formatInt(size) \o <<" ","b","y","t","e","s">>
  ELSE IF size < 1024 * 1024 THEN formatInt(size \div 1024) \o <<" ","K","B">>
  ELSE formatInt(size \div (1024 * 1024)) \o <<" ","M","B">>

\* BodyProcessingRule.Condition(contentType, body, size)
CondHolds(c, contentType, body, size) ==
  CASE c.k = "binary" -> isBinaryContent(contentType)
    [] c.k = "base64Over" -> size > c.n /\ looksLikeBase64(body)
    [] c.k = "structuredOver" -> size > c.n /\ (isJSON(contentType) \/ isXML(contentType))
    [] c.k = "sizeOver" -> size > c.n
    [] c.k = "json" -> isJSON(contentType)
    [] c.k = "always" -> TRUE

(***************************************************************************)
(* The field-name matcher                                                  *)
(***************************************************************************)
isSensitiveField(cfg, fieldName) ==
  LET lower == ToLower(fieldName)
  IN \E i \in 1..Len(cfg.SensitiveFields) : Contains(lower, ToLower(cfg.SensitiveFields[i]))

\* a faulty variant of isSensitiveHeader that matches by substring, as
\* isSensitiveField does
isSensitiveHeaderContains(cfg, headerName) ==
  LET lower == ToLower(headerName)
  IN \E i \in 1..Len(cfg.SensitiveHeaders) : Contains(lower, ToLower(cfg.SensitiveHeaders[i]))

isSensitiveHeader(cfg, headerName) ==
  LET lower == ToLower(headerName)
  IN \E i \in 1..Len(cfg.SensitiveHeaders) : ToLower(cfg.SensitiveHeaders[i]) = lower

(***************************************************************************)
(* The structural sanitizers                                               *)
(***************************************************************************)
RECURSIVE sanitizeJSON(_, _)
RECURSIVE sanitizeDecoded(_, _, _)
RECURSIVE sanitizeValue(_, _)
RECURSIVE sanitizeElements(_, _)

\* a faulty variant of sanitizeValue that does not open the strings holding
\* JSON: the masking property must tell it from the code
sanitizeValueShallow(cfg, value) ==
  CASE value.t = "obj" ->
         JObj(RangeAssign(Range(DOMAIN value.m),
                          [key \in DOMAIN value.m |->
                             IF isSensitiveField(cfg, key) THEN JStr(cfg.Mask)
                             ELSE sanitizeValue(cfg, value.m[key])],
                          <<>>))
    [] value.t = "arr" -> JArr(sanitizeElements(cfg, value.a))
    [] value.t = "str" -> JStr(sanitizeText(cfg, value.s))
    [] OTHER -> value

\* Sanitizer.sanitizeJSON
sanitizeJSON(cfg, body) == sanitizeDecoded(cfg, body, Unmarshal(body))

\* sanitizeJSON after json.Unmarshal returned data (MarshalIndent cannot fail
\* on a decoded value)
sanitizeDecoded(cfg, body, data) ==
  IF ~data.ok THEN sanitizeText(cfg, body)
  ELSE MarshalIndent(sanitizeValue(cfg, data.v), <<" "," ">>)

\* Sanitizer.sanitizeValue
sanitizeValue(cfg, value) ==
  CASE value.t = "obj" ->
         JObj(RangeAssign(Range(DOMAIN value.m),
                          [key \in DOMAIN value.m |->
                             IF isSensitiveField(cfg, key) THEN JStr(cfg.Mask)
                             ELSE sanitizeValue(cfg, value.m[key])],
                          <<>>))
    [] value.t = "arr" -> JArr(sanitizeElements(cfg, value.a))
    [] value.t = "str" ->
         IF looksLikeJSON(value.s) THEN JStr(sanitizeJSON(cfg, value.s))
         ELSE JStr(sanitizeText(cfg, value.s))
    [] OTHER -> value

sanitizeElements(cfg, a) ==
  IF Len(a) = 0 THEN <<>>
  ELSE <<sanitizeValue(cfg, a[1])>> \o sanitizeElements(cfg, Tail(a))

\* (?i)(<field[^>]*>)([^<]+)(</field>)
XMLTagPattern(field) ==
  Open(1) \o LitI(<<"<">> \o field) \o Star(Not({">"})) \o Lit(<<">">>) \o Close(1)
    \o Open(2) \o Plus(Not({"<"})) \o Close(2)
    \o Open(3) \o LitI(<<"<", "/">> \o field \o <<">">>) \o Close(3)

\* (?i)(field\s*=\s*["'])([^"']+)(["'])
XMLAttrPattern(field) ==
  Open(1) \o LitI(field) \o Star(ReSpace) \o Lit(<<"=">>) \o Star(ReSpace) \o One(Quotes) \o Close(1)
    \o Open(2) \o Plus(Not(Quotes)) \o Close(2)
    \o Open(3) \o One(Quotes) \o Close(3)

\* "${1}" + s.config.Mask + "${3}"
XMLTemplate(cfg) == <<"$","{","1","}">> \o cfg.Mask \o <<"$","{","3","}">>

\* one turn of sanitizeXML's loop over the sensitive fields
sanitizeXMLField(cfg, field, text) ==
  CHOOSE result \in {ReplaceAllString(XMLAttrPattern(field), tags, XMLTemplate(cfg)) :
                       tags \in {ReplaceAllString(XMLTagPattern(field), text, XMLTemplate(cfg))}} : TRUE

\* the first field from lo on whose name stands in text, in letters of either
\* case (-1: none).  The turn of any other field leaves the text as it is: both
\* of its patterns hold the name
nextXMLField(cfg, lo, text) ==
  First({i \in lo..Len(cfg.SensitiveFields) :
           Contains(ToLower(text), ToLower(cfg.SensitiveFields[i]))})

RECURSIVE sanitizeXMLFields(_, _, _)
RECURSIVE sanitizeXMLFrom(_, _, _)

\* the turns of sanitizeXML's loop for the fields from lo on, in order
sanitizeXMLFields(cfg, lo, text) == sanitizeXMLFrom(cfg, nextXMLField(cfg, lo, text), text)

\* the same, field i being the next whose turn can change the text
sanitizeXMLFrom(cfg, i, text) ==
  IF i < 0 THEN text
  ELSE CHOOSE result \in {sanitizeXMLFields(cfg, i + 1, masked) :
                            masked \in {sanitizeXMLField(cfg, cfg.SensitiveFields[i], text)}} : TRUE

\* Sanitizer.sanitizeXML
sanitizeXML(cfg, body) ==
  ApplyPatterns(cfg, cfg.SensitivePatterns,
                sanitizeXMLFields(cfg, 1, body))

\* the loop of sanitizeFormURLEncoded over the parsed values
sanitizeValues(cfg, values) ==
  RangeAssign(Range(DOMAIN values),
              [key \in DOMAIN values |->
                 IF isSensitiveField(cfg, key) THEN <<cfg.Mask>>
                 ELSE [i \in 1..Len(values[key]) |-> sanitizeText(cfg, values[key][i])]],
              <<>>)

\* sanitizeFormURLEncoded after url.ParseQuery returned parsed
sanitizeParsedForm(cfg, body, parsed) ==
  IF parsed.err THEN sanitizeText(cfg, body)
  ELSE Encode(sanitizeValues(cfg, parsed.m))

\* Sanitizer.sanitizeFormURLEncoded
sanitizeFormURLEncoded(cfg, body) == sanitizeParsedForm(cfg, body, ParseQuery(body))

\* strings.Split(s, sep) for a one-byte sep
RECURSIVE Split(_, _)
Split(s, sep) ==
  LET c == Cut(s, <<sep>>)
  IN IF ~c.found THEN <<s>> ELSE <<c.before>> \o Split(c.after, sep)

\* name="([^"]+)"
MultipartNamePattern ==
  Lit(<<"n","a","m","e","=","\"">>) \o Open(1) \o Plus(Not({"\""})) \o Close(1) \o Lit(<<"\"">>)

\* on a Content-Disposition line: whether the field it names is sensitive, p
\* being the offset of the name in the line (-1: no name, the state stays)
namesSensitiveField(cfg, line, p, inSensitiveField) ==
  IF p >= 0
  THEN isSensitiveField(cfg, GroupText(line, p, MatchAt(MultipartNamePattern, line, p), 1))
  ELSE inSensitiveField

\* the loop of sanitizeMultipartForm over the lines from i on
RECURSIVE sanitizeMultipartLines(_, _, _, _)
sanitizeMultipartLines(cfg, lines, i, inSensitiveField) ==
  IF i > Len(lines) THEN <<>>
  ELSE IF Contains(lines[i], <<"C","o","n","t","e","n","t","-","D","i","s","p","o","s","i","t","i","o","n">>)
  THEN <<lines[i]>>
         \o sanitizeMultipartLines(cfg, lines, i + 1,
                                   namesSensitiveField(cfg, lines[i],
                                                       FindFrom(MultipartNamePattern, lines[i], 0),
                                                       inSensitiveField))
  ELSE IF HasPrefix(lines[i], <<"-","-">>)
  THEN <<lines[i]>> \o sanitizeMultipartLines(cfg, lines, i + 1, FALSE)
  ELSE IF inSensitiveField /\ Len(lines[i]) # 0 /\ ~HasPrefix(lines[i], <<"C","o","n","t","e","n","t","-">>)
  THEN <<cfg.Mask>> \o sanitizeMultipartLines(cfg, lines, i + 1, inSensitiveField)
  ELSE <<lines[i]>> \o sanitizeMultipartLines(cfg, lines, i + 1, inSensitiveField)

\* Sanitizer.sanitizeMultipartForm
sanitizeMultipartForm(cfg, body) ==
  Join(sanitizeMultipartLines(cfg, Split(body, "\n"), 1, FALSE), <<"\n">>)

\* the part of summarizeBody's summary that tells the shape of the decoded body
summarizeDecoded(data) ==
  IF ~data.ok THEN <<>>
  ELSE CASE data.v.t = "obj" ->
              <<" ","O","b","j","e","c","t"," ","w","i","t","h"," ">> \o formatInt(Cardinality(DOMAIN data.v.m)) \o <<" ","k","e","y","s">>
         [] data.v.t = "arr" ->
              <<" ","A","r","r","a","y"," ","w","i","t","h"," ">> \o formatInt(Len(data.v.a)) \o <<" ","i","t","e","m","s">>
         [] OTHER -> <<>>

\* Sanitizer.summarizeBody
summarizeBody(cfg, body, contentType, size) ==
  <<"[","L","a","r","g","e"," ","b","o","d","y"," ","-"," ">> \o formatSize(size) \o <<"]">>
    \o (IF isJSON(contentType) THEN summarizeDecoded(Unmarshal(body)) ELSE <<>>)
    \o (IF isXML(contentType) THEN <<" ","X","M","L"," ","d","o","c","u","m","e","n","t">> ELSE <<>>)

(***************************************************************************)
(* SanitizeBody.  Its result is [overflow, text]: overflow says that the   *)
(* call never returned because SanitizeBody and truncateBody called each   *)
(* other until the goroutine's stack was used up.                          *)
(***************************************************************************)
\* how many nested SanitizeBody calls the stack has room for
MaxStack == 3

Returned(text) == [overflow |-> FALSE, text |-> text]
StackOverflow == [overflow |-> TRUE, text |-> <<>>]
\* the rule loop of SanitizeBody ended without a return
NoRuleReturned == [returned |-> FALSE]

\* the format-specific part of SanitizeBody, after the rules
sanitizeByFormat(cfg, body, contentType) ==
  IF isJSON(contentType) \/ looksLikeJSON(body) THEN sanitizeJSON(cfg, body)
  ELSE IF isXML(contentType) \/ looksLikeXML(body) THEN sanitizeXML(cfg, body)
  ELSE IF isFormURLEncoded(contentType) THEN sanitizeFormURLEncoded(cfg, body)
  ELSE IF isMultipartForm(contentType) THEN sanitizeMultipartForm(cfg, body)
  ELSE sanitizeText(cfg, body)

\* the notice truncateBody ends a cut body with
TruncationNotice(size) == <<"\n",".",".","."," ","[","t","r","u","n","c","a","t","e","d",","," ","t","o","t","a","l",":"," ">> \o formatSize(size) \o <<"]">>

RECURSIVE SanitizeBodyAt(_, _, _, _)
RECURSIVE applyBodyRules(_, _, _, _, _)
RECURSIVE truncateBody(_, _, _, _)

\* Sanitizer.truncateBody, called at stack depth
truncateBody(cfg, body, contentType, depth) ==
  LET maxSize == cfg.MaxBodySize
  IN IF Len(body) <= maxSize THEN SanitizeBodyAt(cfg, body, contentType, depth + 1)
     ELSE Returned(Slice(body, 0, maxSize) \o TruncationNotice(Len(body)))

\* the rule loop of SanitizeBody from rule i on: a rule whose action returns
\* nothing (sanitize) leaves the loop running
applyBodyRules(cfg, body, contentType, i, depth) ==
  IF i > Len(cfg.BodyRules) THEN NoRuleReturned
  ELSE LET rule == cfg.BodyRules[i]
       IN IF CondHolds(rule.Condition, contentType, body, Len(body))
          THEN CASE rule.Action = BodyActionSkip ->
                      Returned(IF Len(rule.Message) # 0 THEN rule.Message
                               ELSE <<"[","B","o","d","y"," ","n","o","t"," ","l","o","g","g","e","d","]">>)
                 [] rule.Action = BodyActionSummarize ->
                      Returned(summarizeBody(cfg, body, contentType, Len(body)))
                 [] rule.Action = BodyActionTruncate ->
                      truncateBody(cfg, body, contentType, depth)
                 [] OTHER -> applyBodyRules(cfg, body, contentType, i + 1, depth)
          ELSE applyBodyRules(cfg, body, contentType, i + 1, depth)

\* SanitizeBody after its rule loop, which ended as rules tells
afterBodyRules(cfg, body, contentType, rules) ==
  IF rules = NoRuleReturned THEN Returned(sanitizeByFormat(cfg, body, contentType))
  ELSE rules

SanitizeBodyAt(cfg, body, contentType, depth) ==
  IF depth > MaxStack THEN StackOverflow
  ELSE IF Len(body) = 0 THEN Returned(<<>>)
  ELSE afterBodyRules(cfg, body, contentType, applyBodyRules(cfg, body, contentType, 1, depth))

\* Sanitizer.SanitizeBody
SanitizeBody(cfg, body, contentType) == SanitizeBodyAt(cfg, body, contentType, 1)

(***************************************************************************)
(* SanitizeHeaders                                                         *)
(***************************************************************************)
\* a faulty variant of maskHeaderValue that masks in full in every mode
maskHeaderValueFull(cfg, values) ==
  IF Len(values) = 0 THEN <<>> ELSE cfg.Mask

\* Sanitizer.maskHeaderValue
maskHeaderValue(cfg, values) ==
  IF Len(values) = 0 THEN <<>>
  ELSE LET value == Join(values, <<","," ">>)
       IN IF cfg.HeaderMaskMode = HeaderMaskFull THEN cfg.Mask
          ELSE IF Len(value) <= 8 THEN cfg.Mask
          ELSE Slice(value, 0, 4) \o cfg.Mask \o Slice(value, Len(value) - 4, Len(value))

\* Sanitizer.SanitizeHeaders: headers is a function from names to value lists
SanitizeHeaders(cfg, headers) ==
  RangeAssign(Range(DOMAIN headers),
              [key \in DOMAIN headers |->
                 IF isSensitiveHeader(cfg, key) THEN maskHeaderValue(cfg, headers[key])
                 ELSE Join(headers[key], <<","," ">>)],
              <<>>)

(***************************************************************************)
(* LoggingRoundTripper.  A body is a stream: the bytes it holds, how many  *)
(* of them were read, and the number of bytes after which a read fails     *)
(* (-1: reading never fails).  A stream that failed fails again.           *)
(***************************************************************************)
Stream(data, failAt) == [data |-> data, pos |-> 0, failAt |-> failAt]

\* io.ReadAll: the bytes read up to the end or the failure, and the stream left
ReadAll(b) ==
  IF b.failAt >= 0
  THEN [bytes |-> Slice(b.data, b.pos, b.failAt), err |-> TRUE,
        left |-> [b EXCEPT !.pos = b.failAt]]
  ELSE [bytes |-> Slice(b.data, b.pos, Len(b.data)), err |-> FALSE,
        left |-> [b EXCEPT !.pos = Len(b.data)]]

\* LoggingRoundTripper.readAndRestoreBody: the bytes read (none on a failed
\* read) and the stream then in place
readAndRestoreBody(body) ==
  IF body = Nil THEN [bytes |-> <<>>, body |-> body]
  ELSE LET r == ReadAll(body)
       IN IF r.err THEN [bytes |-> <<>>, body |-> r.left]
          ELSE [bytes |-> r.bytes, body |-> Stream(r.bytes, -1)]

\* http.Header.Get: the first value of the header
Get(header, key) ==
  IF key \in DOMAIN header /\ Len(header[key]) > 0 THEN header[key][1] ELSE <<>>

ContentTypeKey == <<"C","o","n","t","e","n","t","-","T","y","p","e">>

\* scheme, host and path of u, then the query and u's fragment where not empty
URLWithQuery(u, query) ==
  u.Scheme \o <<":","/","/">> \o u.Host \o u.Path
    \o (IF Len(query) # 0 THEN <<"?">> \o query ELSE <<>>)
    \o (IF Len(u.Fragment) # 0 THEN <<"#">> \o u.Fragment ELSE <<>>)

\* url.URL.String for a URL of plain path and host
URLString(u) == URLWithQuery(u, u.RawQuery)

\* the loop of sanitizeQuery over the parsed values
maskValues(san, values) ==
  RangeAssign(Range(DOMAIN values),
              [key \in DOMAIN values |->
                 IF isSensitiveField(san, key) THEN <<san.Mask>> ELSE values[key]],
              <<>>)

\* sanitizeQuery after url.ParseQuery returned parsed
sanitizeParsedQuery(san, rawQuery, parsed) ==
  IF parsed.err THEN rawQuery ELSE Encode(maskValues(san, parsed.m))

\* LoggingRoundTripper.sanitizeQuery
sanitizeQuery(san, rawQuery) == sanitizeParsedQuery(san, rawQuery, ParseQuery(rawQuery))

\* LoggingRoundTripper.sanitizeURL
sanitizeURL(san, u) ==
  IF Len(u.RawQuery) = 0 THEN URLString(u)
  ELSE URLWithQuery(u, sanitizeQuery(san, u.RawQuery))

\* the ShouldLog predicate of a configuration: "nil" for none, else its answer
ShouldLogChoices == {"nil", "true", "false"}

\* the guard of RoundTrip: the call is logged
\* a faulty variant of shouldLog that never bypasses: the bypass property must
\* tell it from the code
shouldLogAlways(config) == TRUE

shouldLog(config) == config.ShouldLog = "nil" \/ config.ShouldLog = "true"

\* the ShouldLogBody predicate: "nil" for none, "default" for the one of
\* DefaultLoggingConfig, "never" for one that refuses every body
ShouldLogBodyChoices == {"nil", "default", "never"}

shouldLogBody(config, contentType, size) ==
  CASE config.ShouldLogBody = "nil" -> TRUE
    [] config.ShouldLogBody = "default" ->
         ~isBinaryContent(contentType) /\ ~(size > 10 * 1024 * 1024)
    [] config.ShouldLogBody = "never" -> FALSE

\* NewLoggingRoundTripper: the interceptor built from a configuration
NewLoggingRoundTripper(config) ==
  LET c == IF config = Nil
           THEN [Logger |-> FALSE, SanitizerConfig |-> Nil, LogRequestBody |-> TRUE,
                 LogResponseBody |-> TRUE, LogHeaders |-> TRUE, ShouldLog |-> "nil",
                 ShouldLogBody |-> "nil", Verbose |-> FALSE]
           ELSE config
  IN [logger |-> c.Logger, sanitizer |-> NewSanitizer(c.SanitizerConfig), config |-> c]

\* one key/value pair of a log record
Field(key, value) == <<key, value>>

\* a call of the logger (op is Info, Error or Debug)
LogRecord(op, msg, fields) == [op |-> op, msg |-> msg, fields |-> fields]

\* the "body" field made of what SanitizeBody returned; crash: it used up the stack
sanitizedBody(sanitized) ==
  [crash |-> sanitized.overflow, fields |-> <<Field("body", sanitized.text)>>]

\* the body part of logRequest and logResponse, body being the bytes read
logBody(l, contentType, body) ==
  IF Len(body) = 0 THEN [crash |-> FALSE, fields |-> <<>>]
  ELSE IF shouldLogBody(l.config, contentType, Len(body))
  THEN sanitizedBody(SanitizeBody(l.sanitizer, body, contentType))
  ELSE [crash |-> FALSE,
        fields |-> <<Field("body", <<"[","B","o","d","y"," ","n","o","t"," ","l","o","g","g","e","d"," ","-"," ","s","i","z","e",":"," ">> \o formatSize(Len(body)) \o <<"]">>)>>]

\* the logger call that ends logRequest and logResponse (none when the call crashed)
logFields(op, msg, fields, body) ==
  [records |-> IF body.crash THEN <<>> ELSE <<LogRecord(op, msg, fields \o body.fields)>>,
   crash |-> body.crash]

\* the "path" and "query" fields of logRequest
verboseFields(l, r) ==
  IF l.config.Verbose
  THEN <<Field("path", r.URL.Path)>>
         \o (IF Len(r.URL.RawQuery) # 0
             THEN <<Field("query", sanitizeQuery(l.sanitizer, r.URL.RawQuery))>>
             ELSE <<>>)
  ELSE <<>>

\* the "headers" field of logRequest and logResponse
headerFields(l, header) ==
  IF l.config.LogHeaders /\ DOMAIN header # {}
  THEN <<Field("headers", SanitizeHeaders(l.sanitizer, header))>>
  ELSE <<>>

\* the body of a message read for logging (enabled: the configuration asks for it)
readBody(enabled, body) ==
  IF enabled /\ body # Nil THEN readAndRestoreBody(body) ELSE [bytes |-> <<>>, body |-> body]

\* LoggingRoundTripper.logRequest: the request body as it is left (body), the
\* logger calls made (records), and whether the call crashed
logRequest(l, r) ==
  IF ~l.logger THEN [body |-> r.Body, records |-> <<>>, crash |-> FALSE]
  ELSE [body |-> readBody(l.config.LogRequestBody, r.Body).body]
         @@ logFields("Info", "HTTP Request",
                      <<Field("method", r.Method), Field("url", sanitizeURL(l.sanitizer, r.URL)),
                        Field("host", r.Host)>>
                        \o verboseFields(l, r) \o headerFields(l, r.Header),
                      logBody(l, Get(r.Header, ContentTypeKey),
                              readBody(l.config.LogRequestBody, r.Body).bytes))

\* the level logResponse logs a response at
responseLevel(statusCode) ==
  IF statusCode >= 500 THEN "Error"
  ELSE IF statusCode >= 400 THEN "Info"
  ELSE "Debug"

\* LoggingRoundTripper.logResponse: the response body as it is left (body), the
\* logger calls made (records), and whether the call crashed
logResponse(l, r, resp, duration) ==
  IF ~l.logger THEN [body |-> resp.Body, records |-> <<>>, crash |-> FALSE]
  ELSE [body |-> readBody(l.config.LogResponseBody, resp.Body).body]
         @@ logFields(responseLevel(resp.StatusCode), "HTTP Response",
                      <<Field("method", r.Method), Field("url", sanitizeURL(l.sanitizer, r.URL)),
                        Field("status", resp.StatusCode), Field("status_text", resp.Status),
                        Field("duration_ms", duration)>>
                        \o (IF l.config.Verbose /\ resp.ContentLength > 0
                            THEN <<Field("content_length", formatSize(resp.ContentLength))>>
                            ELSE <<>>)
                        \o headerFields(l, resp.Header),
                      logBody(l, Get(resp.Header, ContentTypeKey),
                              readBody(l.config.LogResponseBody, resp.Body).bytes))

\* a faulty variant of logError that also logs the request headers: the
\* property of the error record must tell it from the code
logErrorWithHeaders(l, r, err, duration) ==
  IF ~l.logger THEN <<>>
  ELSE <<LogRecord("Error", "HTTP Request Failed",
                   <<Field("method", r.Method), Field("url", sanitizeURL(l.sanitizer, r.URL)),
                     Field("error", err.text), Field("duration_ms", duration)>>
                     \o headerFields(l, r.Header))>>

\* LoggingRoundTripper.logError: the logger calls made
logError(l, r, err, duration) ==
  IF ~l.logger THEN <<>>
  ELSE <<LogRecord("Error", "HTTP Request Failed",
                   <<Field("method", r.Method), Field("url", sanitizeURL(l.sanitizer, r.URL)),
                     Field("error", err.text), Field("duration_ms", duration)>>)>>

(***************************************************************************)
(* SanitizerNoRegex, the sanitizer that scans by hand.  A call of one of   *)
(* its functions ends in one of three ways: it returns a text, it panics   *)
(* on a slice beyond the end of a string, or it never returns because a    *)
(* loop has no exit.  The outcome is [fail, text], fail being "none",      *)
(* "panic", "hang" or (SanitizeBody and truncateBody calling each other)   *)
(* "overflow".                                                             *)
(***************************************************************************)
Completed(text) == [fail |-> "none", text |-> text]
Panics == [fail |-> "panic", text |-> <<>>]
NeverReturns == [fail |-> "hang", text |-> <<>>]

\* the statements that follow a call of outcome r, when it returned
Then(r, next(_)) == IF r.fail # "none" THEN r ELSE next(r.text)

DefaultSensitiveFieldsNoRegex ==
  <<<<"p","a","s","s","w","o","r","d">>, <<"p","a","s","s","w","d">>, <<"p","w","d">>, <<"s","e","c","r","e","t">>, <<"t","o","k","e","n">>,
    <<"a","p","i","_","k","e","y">>, <<"a","p","i","k","e","y">>, <<"a","p","i","_","s","e","c","r","e","t">>, <<"a","c","c","e","s","s","_","t","o","k","e","n">>, <<"r","e","f","r","e","s","h","_","t","o","k","e","n">>,
    <<"c","l","i","e","n","t","_","s","e","c","r","e","t">>, <<"a","u","t","h","o","r","i","z","a","t","i","o","n">>, <<"a","u","t","h">>,
    <<"b","e","a","r","e","r">>, <<"s","e","s","s","i","o","n">>, <<"s","e","s","s","i","o","n","_","i","d">>, <<"c","o","o","k","i","e">>,
    <<"s","s","n">>, <<"c","r","e","d","i","t","_","c","a","r","d">>, <<"c","a","r","d","_","n","u","m","b","e","r">>, <<"c","v","v">>, <<"c","v","c">>,
    <<"p","r","i","v","a","t","e","_","k","e","y">>, <<"e","n","c","r","y","p","t","i","o","n","_","k","e","y">>>>

\* DefaultSanitizerConfigNoRegex
DefaultSanitizerConfigNoRegex ==
  [SensitiveFields |-> DefaultSensitiveFieldsNoRegex,
   Mask |-> <<"*","*","*","R","E","D","A","C","T","E","D","*","*","*">>,
   MaxBodySize |-> 100 * 1024,
   BodyRules |-> <<Rule(Cond("binary", 0), BodyActionSkip, <<"[","B","i","n","a","r","y"," ","c","o","n","t","e","n","t"," ","-"," ","n","o","t"," ","l","o","g","g","e","d","]">>),
                   Rule(Cond("base64Over", 1024), BodyActionSkip, <<"[","B","a","s","e","6","4"," ","e","n","c","o","d","e","d"," ","d","a","t","a"," ","-"," ","n","o","t"," ","l","o","g","g","e","d","]">>),
                   Rule(Cond("sizeOver", 100 * 1024), BodyActionTruncate, <<>>)>>,
   HeaderMaskMode |-> HeaderMaskPartial,
   SensitiveHeaders |-> <<>>,
   EnableBearerTokenDetection |-> TRUE,
   EnableAPIKeyDetection |-> TRUE,
   EnableJWTDetection |-> TRUE,
   EnableCreditCardDetection |-> TRUE,
   EnableEmailDetection |-> FALSE,
   EnableAWSKeyDetection |-> TRUE]

\* NewSanitizerNoRegex: the configuration the sanitizer works with
NewSanitizerNoRegex(config) ==
  IF config = Nil THEN DefaultSanitizerConfigNoRegex ELSE config

\* the loops "for i < len(s) && !stop(s[i]) { i++ }": the first offset from
\* start on where s holds a byte of stops, len(s) when there is none, start
\* when start is not below len(s)
ScanUntil(s, start, stops) ==
  IF start >= Len(s) THEN start
  ELSE IF \E i \in start..(Len(s) - 1) : s[i + 1] \in stops
       THEN First({i \in start..(Len(s) - 1) : s[i + 1] \in stops})
       ELSE Len(s)

\* strings.ReplaceAll for a non-empty old
RECURSIVE ReplaceAll(_, _, _)
ReplaceAll(s, old, new) ==
  IF Index(s, old) < 0 THEN s
  ELSE Slice(s, 0, Index(s, old)) \o new
         \o ReplaceAll(Slice(s, Index(s, old) + Len(old), Len(s)), old, new)

RECURSIVE hideBearerFrom(_, _, _, _)
RECURSIVE hideBearerAt(_, _, _, _, _)

\* a faulty variant of hideBearerTokens that hides nothing
hideNoBearerTokens(cfg, text) == Completed(text)

\* SanitizerNoRegex.hideBearerTokens
hideBearerTokens(cfg, text) == hideBearerFrom(cfg, text, text, 0)

\* the loop of hideBearerTokens, with result and idx as they stand (lower is
\* the lower-cased result throughout).  The exit test that ends a turn is
\* made here, where the next turn begins; before the first turn it holds of
\* the empty text alone, in which strings.Index finds nothing
hideBearerFrom(cfg, text, result, idx) ==
  IF idx >= Len(result) THEN Completed(result)
  ELSE hideBearerAt(cfg, text, result, idx,
                    Index(Slice(ToLower(result), idx, Len(result)), <<"b","e","a","r","e","r"," ">>))

\* one turn of the loop, strings.Index having returned pos: the token's end is
\* looked for in text, the slices are taken of result
hideBearerAt(cfg, text, result, idx, pos) ==
  IF pos = -1 THEN Completed(result)
  ELSE LET tokenStart == pos + idx + 7
           tokenEnd == ScanUntil(text, tokenStart, Spaces)
       IN IF tokenEnd > tokenStart
          THEN IF tokenEnd > Len(result) THEN Panics
               ELSE hideBearerFrom(cfg, text,
                                   Slice(result, 0, tokenStart) \o cfg.Mask
                                     \o Slice(result, tokenEnd, Len(result)),
                                   tokenStart)
          ELSE hideBearerFrom(cfg, text, result, tokenStart)

\* the patterns of hideAPIKeys
APIKeyPatterns == <<<<"a","p","i","_","k","e","y",":">>, <<"a","p","i","k","e","y","=">>, <<"a","p","i","-","k","e","y",":">>, <<"a","p","i","_","k","e","y","=">>, <<"\"","a","p","i","_","k","e","y","\"",":">>, <<"'","a","p","i","_","k","e","y","'",":">>>>

RECURSIVE hideAPIKeysFrom(_, _, _, _, _)
RECURSIVE hideAPIKeysAt(_, _, _, _, _, _)

\* SanitizerNoRegex.hideAPIKeys
hideAPIKeys(cfg, text) == hideAPIKeysFrom(cfg, text, text, 1, 0)

\* the loops of hideAPIKeys at pattern p, with result and idx as they stand;
\* the exit test that ends a turn of the inner loop is made here
hideAPIKeysFrom(cfg, text, result, p, idx) ==
  IF p > Len(APIKeyPatterns) THEN Completed(result)
  ELSE IF idx >= Len(result) THEN hideAPIKeysFrom(cfg, text, result, p + 1, 0)
  ELSE hideAPIKeysAt(cfg, text, result, p, idx,
                     Index(Slice(ToLower(result), idx, Len(result)), APIKeyPatterns[p]))

\* one turn of the inner loop, strings.Index having returned pos: the value
\* is looked for in text, the slices are taken of result
hideAPIKeysAt(cfg, text, result, p, idx, pos) ==
  IF pos = -1 THEN hideAPIKeysFrom(cfg, text, result, p + 1, 0)
  ELSE LET next == pos + idx + Len(APIKeyPatterns[p])
           valueStart == ScanUntil(text, next, Chars \ (Spaces \cup Quotes))
           valueEnd == ScanUntil(text, valueStart, Spaces \cup Quotes \cup {",", "}", "&"})
       IN IF valueEnd > valueStart /\ valueEnd - valueStart > 10
          THEN IF valueEnd > Len(result) THEN Panics
               ELSE hideAPIKeysFrom(cfg, text,
                                    Slice(result, 0, valueStart) \o cfg.Mask
                                      \o Slice(result, valueEnd, Len(result)),
                                    p, next)
          ELSE hideAPIKeysFrom(cfg, text, result, p, next)

\* isBase64Char
isBase64Char == Letters \cup Digits \cup {"+", "/", "=", "_", "-"}

RECURSIVE hideJWTFrom(_, _, _)
RECURSIVE hideJWTAt(_, _, _, _)

\* SanitizerNoRegex.hideJWTTokens
hideJWTTokens(cfg, text) == hideJWTFrom(cfg, text, 0)

\* the loop of hideJWTTokens, with result and idx as they stand; the exit
\* test that ends a turn is made here
hideJWTFrom(cfg, result, idx) ==
  IF idx >= Len(result) THEN result
  ELSE hideJWTAt(cfg, result, idx, Index(Slice(result, idx, Len(result)), <<"e","y","J">>))

\* one turn of the loop of hideJWTTokens, strings.Index having returned pos
hideJWTAt(cfg, result, idx, pos) ==
  IF pos = -1 THEN result
  ELSE LET start == pos + idx
           tokenEnd == ScanUntil(result, start + 3, Chars \ (isBase64Char \cup {"."}))
           dotCount == Cardinality({i \in (start + 3)..(tokenEnd - 1) : result[i + 1] = "."})
       IN IF dotCount = 2 /\ tokenEnd - start > 50
          THEN hideJWTFrom(cfg, Slice(result, 0, start) \o cfg.Mask
                                  \o Slice(result, tokenEnd, Len(result)),
                           start + 3)
          ELSE hideJWTFrom(cfg, result, start + 3)

\* extractDigits
extractDigits(text) == SelectSeq(text, LAMBDA c : c \in Digits)

\* SanitizerNoRegex.looksLikeCreditCard
looksLikeCreditCard(digits) ==
  /\ Len(digits) >= 13 /\ Len(digits) <= 19
  /\ HasPrefix(digits, <<"4">>) \/ HasPrefix(digits, <<"5">>) \/ HasPrefix(digits, <<"3">>)

\* formatCard
formatCard(digits, separator) ==
  IF Len(digits) # 16 THEN digits
  ELSE Slice(digits, 0, 4) \o separator \o Slice(digits, 4, 8) \o separator
         \o Slice(digits, 8, 12) \o separator \o Slice(digits, 12, 16)

\* SanitizerNoRegex.replaceCreditCardInText
replaceCreditCardInText(cfg, text, cardDigits) ==
  ReplaceAll(ReplaceAll(ReplaceAll(text, cardDigits, cfg.Mask),
                        formatCard(cardDigits, <<"-">>), cfg.Mask),
             formatCard(cardDigits, <<" ">>), cfg.Mask)

\* turn k of the loops of hideCreditCards over i and length: its cardNum
cardNum(digits, k) == Slice(digits, k \div 7, (k \div 7) + 13 + (k % 7))

\* the first turn from k on that changes result (-1: none): its digits are
\* within digits, look like a card and stand in result, plain or formatted
nextCardTurn(cfg, digits, result, k) ==
  First({j \in k..(7 * (Len(digits) - 12) - 1) :
           /\ (j \div 7) + 13 + (j % 7) <= Len(digits)
           /\ looksLikeCreditCard(cardNum(digits, j))
           /\ \/ Contains(result, cardNum(digits, j))
              \/ Contains(result, formatCard(cardNum(digits, j), <<"-">>))
              \/ Contains(result, formatCard(cardNum(digits, j), <<" ">>))})

RECURSIVE hideCreditCardsFrom(_, _, _, _)

\* the loops of hideCreditCards from turn k on, k being the next turn that
\* changes result
hideCreditCardsFrom(cfg, digits, result, k) ==
  IF k < 0 THEN result
  ELSE CHOOSE masked \in {hideCreditCardsFrom(cfg, digits, replaced, nextCardTurn(cfg, digits, replaced, k + 1)) :
                            replaced \in {replaceCreditCardInText(cfg, result, cardNum(digits, k))}} : TRUE

\* SanitizerNoRegex.hideCreditCards
hideCreditCards(cfg, text) ==
  hideCreditCardsFrom(cfg, extractDigits(text), text, nextCardTurn(cfg, extractDigits(text), text, 0))

RECURSIVE hideAWSFrom(_, _, _)
RECURSIVE hideAWSAt(_, _, _, _)

\* SanitizerNoRegex.hideAWSKeys
hideAWSKeys(cfg, text) == hideAWSFrom(cfg, text, 0)

\* the loop of hideAWSKeys, with result and idx as they stand; the exit test
\* that ends a turn is made here
hideAWSFrom(cfg, result, idx) ==
  IF idx >= Len(result) THEN result
  ELSE hideAWSAt(cfg, result, idx, Index(Slice(result, idx, Len(result)), <<"A","K","I","A">>))

\* one turn of the loop of hideAWSKeys, strings.Index having returned pos
hideAWSAt(cfg, result, idx, pos) ==
  IF pos = -1 THEN result
  ELSE LET start == pos + idx
           scanned == ScanUntil(result, start + 4, Chars \ (Uppers \cup Digits))
           keyEnd == IF scanned > start + 20 THEN start + 20 ELSE scanned
       IN IF keyEnd - start = 20
          THEN hideAWSFrom(cfg, Slice(result, 0, start) \o cfg.Mask
                                  \o Slice(result, keyEnd, Len(result)),
                           start + 4)
          ELSE hideAWSFrom(cfg, result, start + 4)

\* SanitizerNoRegex.sanitizeText
sanitizeTextNoRegex(cfg, text) ==
  Then(Then(Then(Then(IF cfg.EnableBearerTokenDetection THEN hideBearerTokens(cfg, text)
                      ELSE Completed(text),
                      LAMBDA t : IF cfg.EnableAPIKeyDetection THEN hideAPIKeys(cfg, t)
                                 ELSE Completed(t)),
                 LAMBDA t : Completed(IF cfg.EnableJWTDetection THEN hideJWTTokens(cfg, t) ELSE t)),
            LAMBDA t : Completed(IF cfg.EnableCreditCardDetection THEN hideCreditCards(cfg, t) ELSE t)),
       LAMBDA t : Completed(IF cfg.EnableAWSKeyDetection THEN hideAWSKeys(cfg, t) ELSE t))

\* result[key] = value
Assign(result, key, value) ==
  [x \in DOMAIN result \cup {key} |-> IF x = key THEN value ELSE result[x]]

\* indexCaseInsensitive
indexCaseInsensitive(text, substr) == Index(ToLower(text), ToLower(substr))

RECURSIVE replaceXMLTag(_, _, _)

\* the end of a turn of a loop whose only exits are breaks taken before the
\* text is rewritten: a turn that leaves the text as it found it is followed
\* by the same turn for ever
NextTurn(text, result, turn(_)) ==
  IF result = text THEN NeverReturns ELSE turn(result)

\* SanitizerNoRegex.replaceXMLTag, from a turn of its loop on
replaceXMLTag(cfg, text, fieldName) ==
  LET openTag == <<"<">> \o fieldName \o <<">">>
      closeTag == <<"<", "/">> \o fieldName \o <<">">>
      start == IF Index(text, openTag) # -1 THEN Index(text, openTag)
               ELSE indexCaseInsensitive(text, openTag)
      end == Index(Slice(text, start, Len(text)), closeTag)
  IN IF start = -1 THEN Completed(text)
     ELSE IF end = -1 THEN Completed(text)
     ELSE NextTurn(text,
                   Slice(text, 0, start + Len(openTag)) \o cfg.Mask
                     \o Slice(text, start + end, Len(text)),
                   LAMBDA result : replaceXMLTag(cfg, result, fieldName))

RECURSIVE replaceXMLAttributeQuoted(_, _, _, _)

\* the loop of replaceXMLAttribute for one quote, from a turn on
replaceXMLAttributeQuoted(cfg, text, fieldName, quote) ==
  LET pattern == fieldName \o <<"=", quote>>
      start == indexCaseInsensitive(text, pattern)
      valueStart == start + Len(pattern)
      valueEnd == Index(Slice(text, valueStart, Len(text)), <<quote>>)
  IN IF start = -1 THEN Completed(text)
     ELSE IF valueEnd = -1 THEN Completed(text)
     ELSE NextTurn(text,
                   Slice(text, 0, valueStart) \o cfg.Mask
                     \o Slice(text, valueStart + valueEnd, Len(text)),
                   LAMBDA result : replaceXMLAttributeQuoted(cfg, result, fieldName, quote))

\* SanitizerNoRegex.replaceXMLAttribute
replaceXMLAttribute(cfg, text, fieldName) ==
  Then(replaceXMLAttributeQuoted(cfg, text, fieldName, "\""),
       LAMBDA result : replaceXMLAttributeQuoted(cfg, result, fieldName, "'"))

RECURSIVE sanitizeXMLFieldsNoRegex(_, _, _)

\* the turns of sanitizeXML's loop over the sensitive fields from field i on,
\* i being the next field whose name stands in text (the turn of any other
\* field leaves the text as it is: its tags and its patterns hold the name)
sanitizeXMLFieldsNoRegex(cfg, i, text) ==
  IF i < 0 THEN Completed(text)
  ELSE Then(Then(replaceXMLTag(cfg, text, cfg.SensitiveFields[i]),
                 LAMBDA result : replaceXMLAttribute(cfg, result, cfg.SensitiveFields[i])),
            LAMBDA result : sanitizeXMLFieldsNoRegex(cfg, nextXMLField(cfg, i + 1, result), result))

\* SanitizerNoRegex.sanitizeXML
sanitizeXMLNoRegex(cfg, body) ==
  Then(sanitizeXMLFieldsNoRegex(cfg, nextXMLField(cfg, 1, body), body),
       LAMBDA result : sanitizeTextNoRegex(cfg, result))

RECURSIVE sanitizeJSONNoRegex(_, _)
RECURSIVE sanitizeValueNoRegex(_, _)
RECURSIVE sanitizeMembersNoRegex(_, _, _, _)
RECURSIVE sanitizeElementsNoRegex(_, _, _)

\* the outcome of a call that returns the JSON value v
CompletedValue(v) == [fail |-> "none", v |-> v]

\* what follows a call of outcome r that returns a value
ThenValue(r, next(_)) == IF r.fail # "none" THEN r ELSE next(r.v)

\* the string case of sanitizeValue: the string the call of outcome r returned
sanitizedString(r) == [fail |-> r.fail, v |-> JStr(r.text)]

\* SanitizerNoRegex.sanitizeValue: [fail, v], v the value returned
sanitizeValueNoRegex(cfg, value) ==
  CASE value.t = "obj" -> sanitizeMembersNoRegex(cfg, value.m, Range(DOMAIN value.m), <<>>)
    [] value.t = "arr" -> sanitizeElementsNoRegex(cfg, value.a, <<>>)
    [] value.t = "str" ->
         sanitizedString(IF looksLikeJSON(value.s) THEN sanitizeJSONNoRegex(cfg, value.s)
                         ELSE sanitizeTextNoRegex(cfg, value.s))
    [] OTHER -> CompletedValue(value)

\* the loop of sanitizeValue over the keys of a map, keys being those still to
\* visit, in the order of the range
sanitizeMembersNoRegex(cfg, m, keys, result) ==
  IF Len(keys) = 0 THEN CompletedValue(JObj(result))
  ELSE ThenValue(IF isSensitiveField(cfg, keys[1]) THEN CompletedValue(JStr(cfg.Mask))
                 ELSE sanitizeValueNoRegex(cfg, m[keys[1]]),
                 LAMBDA v : sanitizeMembersNoRegex(cfg, m, Tail(keys), Assign(result, keys[1], v)))

\* the loop of sanitizeValue over the elements of a slice
sanitizeElementsNoRegex(cfg, a, result) ==
  IF Len(result) = Len(a) THEN CompletedValue(JArr(result))
  ELSE ThenValue(sanitizeValueNoRegex(cfg, a[Len(result) + 1]),
                 LAMBDA v : sanitizeElementsNoRegex(cfg, a, Append(result, v)))

\* sanitizeJSON after the call of sanitizeValue, of outcome r (MarshalIndent
\* cannot fail on a decoded value)
marshalSanitized(r) ==
  IF r.fail # "none" THEN [fail |-> r.fail, text |-> <<>>]
  ELSE Completed(MarshalIndent(r.v, <<" ", " ">>))

\* sanitizeJSON after json.Unmarshal returned data
sanitizeDecodedNoRegex(cfg, body, data) ==
  IF ~data.ok THEN sanitizeTextNoRegex(cfg, body)
  ELSE marshalSanitized(sanitizeValueNoRegex(cfg, data.v))

\* SanitizerNoRegex.sanitizeJSON
sanitizeJSONNoRegex(cfg, body) == sanitizeDecodedNoRegex(cfg, body, Unmarshal(body))

RECURSIVE sanitizeFormKeysNoRegex(_, _, _, _)
RECURSIVE sanitizeFormValsNoRegex(_, _, _)

\* the loop of sanitizeFormURLEncoded over the values of one key
sanitizeFormValsNoRegex(cfg, vals, newVals) ==
  IF Len(newVals) = Len(vals) THEN Completed(newVals)
  ELSE Then(sanitizeTextNoRegex(cfg, vals[Len(newVals) + 1]),
            LAMBDA val : sanitizeFormValsNoRegex(cfg, vals, Append(newVals, val)))

\* the loop of sanitizeFormURLEncoded over the parsed keys, keys being those
\* still to visit, in the order of the range; then Encode
sanitizeFormKeysNoRegex(cfg, values, keys, sanitized) ==
  IF Len(keys) = 0 THEN Completed(Encode(sanitized))
  ELSE Then(IF isSensitiveField(cfg, keys[1]) THEN Completed(<<cfg.Mask>>)
            ELSE sanitizeFormValsNoRegex(cfg, values[keys[1]], <<>>),
            LAMBDA newVals : sanitizeFormKeysNoRegex(cfg, values, Tail(keys),
                                                     Assign(sanitized, keys[1], newVals)))

\* sanitizeFormURLEncoded after url.ParseQuery returned parsed
sanitizeParsedFormNoRegex(cfg, body, parsed) ==
  IF parsed.err THEN sanitizeTextNoRegex(cfg, body)
  ELSE sanitizeFormKeysNoRegex(cfg, parsed.m, Range(DOMAIN parsed.m), <<>>)

\* SanitizerNoRegex.sanitizeFormURLEncoded
sanitizeFormURLEncodedNoRegex(cfg, body) ==
  sanitizeParsedFormNoRegex(cfg, body, ParseQuery(body))

\* SanitizerNoRegex.summarizeBody
summarizeBodyNoRegex(cfg, body, contentType, size) ==
  <<"[","L","a","r","g","e"," ","b","o","d","y"," ","-"," ">> \o formatSize(size) \o <<"]">>
    \o (IF isJSON(contentType) THEN summarizeDecoded(Unmarshal(body)) ELSE <<>>)

\* the format-specific part of SanitizerNoRegex.SanitizeBody, after the rules
sanitizeByFormatNoRegex(cfg, body, contentType) ==
  IF isJSON(contentType) \/ looksLikeJSON(body) THEN sanitizeJSONNoRegex(cfg, body)
  ELSE IF isXML(contentType) \/ looksLikeXML(body) THEN sanitizeXMLNoRegex(cfg, body)
  ELSE IF isFormURLEncoded(contentType) THEN sanitizeFormURLEncodedNoRegex(cfg, body)
  ELSE sanitizeTextNoRegex(cfg, body)

\* SanitizeBody and truncateBody called each other until the stack was used up
Overflows == [fail |-> "overflow", text |-> <<>>]

RECURSIVE SanitizeBodyNoRegexAt(_, _, _, _)
RECURSIVE applyBodyRulesNoRegex(_, _, _, _, _)

\* SanitizerNoRegex.truncateBody, called at stack depth
truncateBodyNoRegex(cfg, body, contentType, depth) ==
  IF Len(body) <= cfg.MaxBodySize THEN SanitizeBodyNoRegexAt(cfg, body, contentType, depth + 1)
  ELSE Completed(Slice(body, 0, cfg.MaxBodySize) \o TruncationNotice(Len(body)))

\* the rule loop of SanitizerNoRegex.SanitizeBody from rule i on
applyBodyRulesNoRegex(cfg, body, contentType, i, depth) ==
  IF i > Len(cfg.BodyRules) THEN NoRuleReturned
  ELSE IF CondHolds(cfg.BodyRules[i].Condition, contentType, body, Len(body))
       THEN CASE cfg.BodyRules[i].Action = BodyActionSkip ->
                   Completed(IF Len(cfg.BodyRules[i].Message) # 0 THEN cfg.BodyRules[i].Message
                             ELSE <<"[","B","o","d","y"," ","n","o","t"," ","l","o","g","g","e","d","]">>)
              [] cfg.BodyRules[i].Action = BodyActionSummarize ->
                   Completed(summarizeBodyNoRegex(cfg, body, contentType, Len(body)))
              [] cfg.BodyRules[i].Action = BodyActionTruncate ->
                   truncateBodyNoRegex(cfg, body, contentType, depth)
              [] OTHER -> applyBodyRulesNoRegex(cfg, body, contentType, i + 1, depth)
       ELSE applyBodyRulesNoRegex(cfg, body, contentType, i + 1, depth)

\* SanitizerNoRegex.SanitizeBody after its rule loop, which ended as rules tells
afterBodyRulesNoRegex(cfg, body, contentType, rules) ==
  IF rules = NoRuleReturned THEN sanitizeByFormatNoRegex(cfg, body, contentType)
  ELSE rules

SanitizeBodyNoRegexAt(cfg, body, contentType, depth) ==
  IF depth > MaxStack THEN Overflows
  ELSE IF Len(body) = 0 THEN Completed(<<>>)
  ELSE afterBodyRulesNoRegex(cfg, body, contentType,
                             applyBodyRulesNoRegex(cfg, body, contentType, 1, depth))

\* SanitizerNoRegex.SanitizeBody
SanitizeBodyNoRegex(cfg, body, contentType) == SanitizeBodyNoRegexAt(cfg, body, contentType, 1)

(***************************************************************************)
(* The calls of the model.  A RoundTrip call is made on an interceptor     *)
(* built from one of LoggingConfigs, with one of Requests, and the wrapped *)
(* transport answers with one of Outcomes.                                 *)
(***************************************************************************)
JSONType == <<"a","p","p","l","i","c","a","t","i","o","n","/","j","s","o","n">>
TextType == <<"t","e","x","t","/","p","l","a","i","n">>
XMLType == <<"a","p","p","l","i","c","a","t","i","o","n","/","x","m","l">>
FormType == <<"a","p","p","l","i","c","a","t","i","o","n","/","x","-","w","w","w","-","f","o","r","m","-","u","r","l","e","n","c","o","d","e","d">>
MultipartType == <<"m","u","l","t","i","p","a","r","t","/","f","o","r","m","-","d","a","t","a",";"," ","b","o","u","n","d","a","r","y","=","B">>

\* a sanitizer configuration whose only rule truncates every body, at 8 bytes
TruncateAllConfig ==
  [DefaultSanitizerConfig EXCEPT !.MaxBodySize = 8,
                                 !.BodyRules = <<Rule(Cond("always", 0), BodyActionTruncate, <<>>)>>]

LoggingConfigs ==
  [Logger : BOOLEAN, SanitizerConfig : {Nil, TruncateAllConfig},
   LogRequestBody : BOOLEAN, LogResponseBody : BOOLEAN, LogHeaders : BOOLEAN,
   ShouldLog : ShouldLogChoices, ShouldLogBody : ShouldLogBodyChoices, Verbose : BOOLEAN]

NoHeader == <<>>

Request(method, rawQuery, header, body) ==
  [Method |-> method,
   URL |-> [Scheme |-> <<"h","t","t","p","s">>, Host |-> <<"a","p","i",".","t","e","s","t">>, Path |-> <<"/","l","o","g","i","n">>,
            RawQuery |-> rawQuery, Fragment |-> <<>>],
   Host |-> <<"a","p","i",".","t","e","s","t">>, Header |-> header, Body |-> body]

Requests ==
  {Request(<<"P","O","S","T">>, <<"t","o","k","e","n","=","a","b","c","&","u","s","e","r","=","b","o","b">>,
           (ContentTypeKey :> <<JSONType>>) @@ (<<"A","u","t","h","o","r","i","z","a","t","i","o","n">> :> <<<<"B","e","a","r","e","r"," ","a","b","c","d","e","f","g","h","1","2","3","4","5","6","7","8">>>>),
           Stream(<<"{","\"","p","a","s","s","w","o","r","d","\"",":","\"","h","u","n","t","e","r","2","\"","}">>, -1)),
   Request(<<"P","O","S","T">>, <<>>, NoHeader, Stream(<<"u","s","e","r","=","b","o","b">>, 4)),
   Request(<<"G","E","T">>, <<>>, (<<"A","c","c","e","p","t">> :> <<<<"*","/","*">>>>), Nil),
   Request(<<"G","E","T">>, <<"t","o","k","e","n","=","a","b","c","1","2","3","&","u","s","e","r","=","%","z","z">>, NoHeader, Nil)}

Response(code, status, header, body) ==
  [StatusCode |-> code, Status |-> status,
   ContentLength |-> IF body = Nil THEN 0 ELSE Len(body.data),
   Header |-> header, Body |-> body]

TransportError(text) == [text |-> text]

\* what next.RoundTrip returns: a response and no error, or an error and no response
Outcomes ==
  {[resp |-> Nil, err |-> TransportError(<<"c","o","n","n","e","c","t","i","o","n"," ","r","e","f","u","s","e","d">>)],
   [resp |-> Response(200, <<"2","0","0"," ","O","K">>, (ContentTypeKey :> <<JSONType>>), Stream(<<"{","\"","o","k","\"",":","1","}">>, -1)),
    err |-> Nil],
   [resp |-> Response(200, <<"2","0","0"," ","O","K">>, (ContentTypeKey :> <<JSONType>>),
                      Stream(<<"{","\"","t","o","k","e","n","\"",":","\"","t","0","k","\"","}">>, 5)),
    err |-> Nil],
   [resp |-> Response(404, <<"4","0","4"," ","N","o","t"," ","F","o","u","n","d">>, (ContentTypeKey :> <<TextType>>),
                      Stream(<<"n","o"," ","s","u","c","h"," ","u","s","e","r">>, -1)),
    err |-> Nil],
   [resp |-> Response(500, <<"5","0","0"," ","I","n","t","e","r","n","a","l"," ","S","e","r","v","e","r"," ","E","r","r","o","r">>, NoHeader, Nil), err |-> Nil]}

\* the durations (in ms) a call may be measured to take
MaxDuration == 1

\* the invocation of the wrapped transport, as an event of the call
TransportCall == [op |-> "RoundTrip", msg |-> "next", fields |-> <<>>]

(***************************************************************************)
(* JSON documents for direct calls of the sanitizer: every document of     *)
(* nesting depth up to MaxDepth built from Leaves, one-member objects over *)
(* JSONKeys, one-element arrays, and strings holding a document            *)
(* (JSON-in-JSON).                                                         *)
(***************************************************************************)
MaxDepth == 2

JSONKeys == {<<"p","a","s","s","w","o","r","d">>, <<"n","a","m","e">>}

Leaves == {JStr(<<"h","u","n","t","e","r","2">>), JStr(<<"B","e","a","r","e","r"," ","a","b","c">>), JNum(<<"7">>, <<"7">>), JNull}

\* json.Marshal: the encoding without indentation
RECURSIVE Compact(_)
Compact(v) ==
  CASE v.t = "str" -> EncodeString(v.s)
    [] v.t = "num" -> v.n
    [] v.t = "bool" -> IF v.b THEN <<"t","r","u","e">> ELSE <<"f","a","l","s","e">>
    [] v.t = "null" -> <<"n","u","l","l">>
    [] v.t = "arr" -> <<"[">> \o Join([i \in 1..Len(v.a) |-> Compact(v.a[i])], <<",">>) \o <<"]">>
    [] v.t = "obj" ->
         LET keys == SortStrings(DOMAIN v.m)
         IN <<"{">> \o Join([i \in 1..Len(keys) |->
                            EncodeString(keys[i]) \o <<":">> \o Compact(v.m[keys[i]])], <<",">>) \o <<"}">>

RECURSIVE Documents(_)
Documents(depth) ==
  IF depth = 0 THEN Leaves
  ELSE LET sub == Documents(depth - 1)
       IN sub \cup {JObj(k :> v) : k \in JSONKeys, v \in sub}
              \cup {JArr(<<v>>) : v \in sub}
              \cup {JStr(Compact(v)) : v \in {x \in sub : x.t \in {"obj", "arr"}}}

GeneratedBodies == {Compact(v) : v \in Documents(MaxDepth)}

\* a JSON string of more than 1024 bytes, all of the base64 alphabet
Base64JSONBody == <<"\"">> \o [i \in 1..1100 |-> "A"] \o <<"\"">>

\* rules that sanitize JSON and skip every other body
SanitizeJSONOnlyConfig ==
  [DefaultSanitizerConfig EXCEPT
     !.BodyRules = <<Rule(Cond("json", 0), BodyActionSanitize, <<>>),
                     Rule(Cond("always", 0), BodyActionSkip, <<>>)>>]

\* the default rules at a smaller scale: bodies over 48 bytes are truncated
Truncate48Config ==
  [DefaultSanitizerConfig EXCEPT
     !.MaxBodySize = 48,
     !.BodyRules = <<Rule(Cond("sizeOver", 48), BodyActionTruncate, <<>>)>>]

\* the configuration of TestSanitizer_MaxBodySize: a size limit and no body rules
MaxBodySizeOnlyConfig ==
  [SensitiveFields |-> <<<<"p","a","s","s","w","o","r","d">>>>,
   SensitivePatterns |-> <<>>,
   Mask |-> <<"*","*","*">>,
   MaxBodySize |-> 50,
   BodyRules |-> <<>>,
   HeaderMaskMode |-> "",
   SensitiveHeaders |-> <<>>]

\* the default configuration with the custom sensitive headers of the
\* CHEATSHEET's example
CustomHeadersConfig ==
  [DefaultSanitizerConfig EXCEPT !.SensitiveHeaders = <<<<"x","-","c","u","s","t","o","m","-","a","u","t","h">>, <<"x","-","i","n","t","e","r","n","a","l","-","t","o","k","e","n">>>>]

\* &SanitizerConfig{}: a configuration whose fields are left unset
EmptySanitizerConfig ==
  [SensitiveFields |-> <<>>,
   SensitivePatterns |-> <<>>,
   Mask |-> <<>>,
   MaxBodySize |-> 0,
   BodyRules |-> <<>>,
   HeaderMaskMode |-> "",
   SensitiveHeaders |-> <<>>]

BodyCall(config, body, contentType) ==
  [op |-> "SanitizeBody", config |-> config, body |-> body, contentType |-> contentType,
   headers |-> NoHeader]

HeadersCall(config, headers) ==
  [op |-> "SanitizeHeaders", config |-> config, body |-> <<>>, contentType |-> <<>>,
   headers |-> headers]

JSONBodies ==
  {<<"{","\"","u","s","e","r","n","a","m","e","\"",":","\"","u","s","e","r","\"",",","\"","p","a","s","s","w","o","r","d","\"",":","\"","s","e","c","r","e","t","1","2","3","\"","}">>,
   <<"{","\"","u","s","e","r","\"",":","{","\"","n","a","m","e","\"",":","\"","J","o","h","n","\"",",","\"","c","r","e","d","e","n","t","i","a","l","s","\"",":","{","\"","p","a","s","s","w","o","r","d","\"",":","\"","p","a","s","s","\"",",","\"","a","p","i","_","k","e","y","\"",":","\"","k","e","y","1","2","3","\"","}","}","}">>,
   <<"{","\"","P","a","s","s","w","o","r","d","\"",":","\"","s","e","c","r","e","t","\"",",","\"","A","P","I","_","K","E","Y","\"",":","\"","k","e","y","\"",",","\"","T","o","k","e","n","\"",":","\"","t","o","k","e","n","1","2","3","\"","}">>,
   <<"[","{","\"","i","d","\"",":","1",",","\"","t","o","k","e","n","\"",":","\"","t","o","k","1","\"","}",",","{","\"","i","d","\"",":","2",",","\"","t","o","k","e","n","\"",":","\"","t","o","k","2","\"","}","]">>,
   <<"{","\"","c","o","n","f","i","g","\"",":","\"","{","\\","\"","a","p","i","_","k","e","y","\\","\"",":","\\","\"","s","k","-","1","2","3","\\","\"",",","\\","\"","s","e","c","r","e","t","\\","\"",":","\\","\"","m","y","s","e","c","r","e","t","\\","\"","}","\"","}">>,
   <<"{","\"","i","d","\"",":","9","0","0","7","1","9","9","2","5","4","7","4","0","9","9","3",",","\"","o","k","\"",":","t","r","u","e","}">>,
   <<"{","\"","p","a","s","s","w","o","r","d","\"",":","\"","h","u","n","t","e","r","2","\"","}"," "," "," "," "," "," "," "," "," "," "," "," "," "," "," "," "," "," "," "," "," "," "," "," "," "," "," "," "," "," ">>,
   <<"\"","a","p","i","_","k","e","y","=","a","b","c","d","e","f","g","h","i","j","0","1","2","3","4","5","6","7","8","9","\"">>,
   <<"{","\"","p","a","s","s","w","o","r","d","\"",":","\"","h","u","n","t","e","r","2","\"">>}

TextBodies ==
  {<<"A","u","t","h","o","r","i","z","a","t","i","o","n",":"," ","B","e","a","r","e","r"," ","s","k","-","1","2","3","4","5","6","7","8","9","0","a","b","c","d","e","f">>,
   <<"a","p","i","_","k","e","y",":"," ","a","b","c","d","e","f","1","2","3","4","5","6","7","8","9","0","1","2","3","4","5","6","7","8","9","0","1","2">>,
   <<"k","e","y"," ","A","K","I","A","I","O","S","F","O","D","N","N","7","E","X","A","M","P","L","E"," ","e","n","d">>,
   <<"c","a","r","d"," ","4","1","1","1","1","1","1","1","1","1","1","1","1","1","1","1">>,
   <<"-","-","-","-","-","B","E","G","I","N"," ","R","S","A"," ","P","R","I","V","A","T","E"," ","K","E","Y","-","-","-","-","-">>,
   <<"A","u","t","h","o","r","i","z","a","t","i","o","n",":"," ","B","e","a","r","e","r"," ","s","k","-","1","2","3","4","5","6","7","8","9","0","a","b","c","d","e","f",","," ","s","e","n","t"," ","w","i","t","h"," ","e","v","e","r","y"," ","c","a","l","l">>,
   <<"m","a","p","s"," ","A","I","z","a","S","y","A","1","2","3","4","5","6","7","8","9","0","a","b","c","d","e","f","g","h","i","j","k","l","m","n","o","p","q","r","s","t","u","v">>,
   <<"g","i","t"," ","g","h","p","_","a","b","c","d","e","f","g","h","i","j","k","l","m","n","o","p","q","r","s","t","u","v","w","x","y","z","0","1","2","3","4","5","6","7","8","9">>,
   <<"j","w","t"," ","e","y","J","h","b","G","c","i","O","i","J","I","U","z","I","1","N","i","J","9",".","e","y","J","z","d","W","I","i","O","i","I","x","I","n","0",".","c","2","l","n">>}

\* XML bodies: a sensitive attribute; no sensitive name at all; an element
\* whose name holds a sensitive name after other letters, beside one named
\* in capitals with an attribute; the example of the documentation
XMLBodies ==
  {<<"<","u","s","e","r"," ","p","a","s","s","w","o","r","d","=","\"","s","e","c","r","e","t","\""," ","i","d","=","\"","7","\"","/",">">>,
   <<"<","u","s","e","r",">","<","n","a","m","e",">","b","o","b","<","/","n","a","m","e",">","<","/","u","s","e","r",">">>,
   <<"<","u","s","e","r",">","<","d","b","_","p","a","s","s","w","o","r","d",">","s","e","c","r","e","t","<","/","d","b","_","p","a","s","s","w","o","r","d",">","<","T","o","k","e","n"," ","k","i","n","d","=","\"","x","\"",">","a","b","c","<","/","T","o","k","e","n",">","<","/","u","s","e","r",">">>,
   <<"<","?","x","m","l"," ","v","e","r","s","i","o","n","=","\"","1",".","0","\"","?",">","\n","<","u","s","e","r",">","\n"," "," "," "," ","<","u","s","e","r","n","a","m","e",">","j","o","h","n","<","/","u","s","e","r","n","a","m","e",">","\n"," "," "," "," ","<","p","a","s","s","w","o","r","d",">","s","e","c","r","e","t","1","2","3","<","/","p","a","s","s","w","o","r","d",">","\n"," "," "," "," ","<","a","p","i","_","k","e","y",">","s","k","-","k","e","y","-","x","y","z","<","/","a","p","i","_","k","e","y",">","\n","<","/","u","s","e","r",">">>}

\* texts with two bearer tokens or two API keys, longer or shorter than the
\* mask, and with one token
SeveralTokenTexts ==
  {<<"b","e","a","r","e","r"," ","a","a","a","a","a","a","a","a","a","a","a","a","a","a","a","a","a","a","a","a","a","a","a","a","a","a","a","a","a","a"," ","b","e","a","r","e","r"," ","a","b","c">>,
   <<"b","e","a","r","e","r"," ","a","b","c"," ","b","e","a","r","e","r"," ","d","e","f","g","h"," ","e","n","d">>,
   <<"a","p","i","_","k","e","y","=">> \o [i \in 1..60 |-> "a"] \o <<" ","a","p","i","_","k","e","y","=","b","b","b","b","b","b","b","b","b","b","b","b","b","b","b">>,
   <<"a","p","i","_","k","e","y","=","a","a","a","a","a","a","a","a","a","a","a","a","a","a","a","a","a","a","a","a","a","a","a","a","a","a","a","a","a","a"," ","a","p","i","_","k","e","y","=","b","b","b","b","b","b","b","b","b","b","b","b","b","b","b">>,
   <<"b","e","a","r","e","r"," ","a","b","c","d","e","f","g","h","i","j","k","l","m","n"," ","e","n","d">>}

\* multipart bodies with the boundary B: the example of the documentation,
\* a password that begins with two dashes, and a token of two lines of which
\* the first begins with Content-
MultipartBodies ==
  {<<"-","-","B","\n","C","o","n","t","e","n","t","-","D","i","s","p","o","s","i","t","i","o","n",":"," ","f","o","r","m","-","d","a","t","a",";"," ","n","a","m","e","=","\"","u","s","e","r","n","a","m","e","\"","\n","\n","j","o","h","n","_","d","o","e","\n","-","-","B","\n","C","o","n","t","e","n","t","-","D","i","s","p","o","s","i","t","i","o","n",":"," ","f","o","r","m","-","d","a","t","a",";"," ","n","a","m","e","=","\"","p","a","s","s","w","o","r","d","\"","\n","\n","s","e","c","r","e","t","1","2","3","\n","-","-","B","-","-">>,
   <<"-","-","B","\n","C","o","n","t","e","n","t","-","D","i","s","p","o","s","i","t","i","o","n",":"," ","f","o","r","m","-","d","a","t","a",";"," ","n","a","m","e","=","\"","p","a","s","s","w","o","r","d","\"","\n","\n","-","-","h","u","n","t","e","r","2","\n","-","-","B","\n","C","o","n","t","e","n","t","-","D","i","s","p","o","s","i","t","i","o","n",":"," ","f","o","r","m","-","d","a","t","a",";"," ","n","a","m","e","=","\"","n","o","t","e","\"","\n","\n","h","e","l","l","o","\n","-","-","B","-","-">>,
   <<"-","-","B","\n","C","o","n","t","e","n","t","-","D","i","s","p","o","s","i","t","i","o","n",":"," ","f","o","r","m","-","d","a","t","a",";"," ","n","a","m","e","=","\"","t","o","k","e","n","\"","\n","C","o","n","t","e","n","t","-","T","y","p","e",":"," ","t","e","x","t","/","p","l","a","i","n","\n","\n","C","o","n","t","e","n","t","-","s","e","c","r","e","t","\n","l","i","n","e","2","\n","-","-","B","-","-">>}

\* calls with a body that looks like JSON under a declared form or XML
\* content type, and with no content type
MisleadingCalls ==
  {BodyCall(Nil, <<"[","0","]","=","x","&","p","a","s","s","w","o","r","d","=","h","u","n","t","e","r","2","&","t","a","g","s","=","[","a","]">>, FormType),
   BodyCall(Nil, <<"{","\"","p","a","s","s","w","o","r","d","\"",":","\"","h","u","n","t","e","r","2","\"","}">>, XMLType),
   BodyCall(Nil, <<"{","\"","p","a","s","s","w","o","r","d","\"",":","\"","h","u","n","t","e","r","2","\"","}">>, <<>>),
   BodyCall(Nil, <<"<","u","s","e","r",">","<","p","a","s","s","w","o","r","d",">","s","e","c","r","e","t","<","/","p","a","s","s","w","o","r","d",">","<","/","u","s","e","r",">">>, <<>>)}

CSVType == <<"t","e","x","t","/","c","s","v">>
ImageType == <<"i","m","a","g","e","/","p","n","g">>

\* a body of size bytes whose first valid bytes are of the base64 alphabet,
\* the others full stops
SampleBody(size, valid) == [i \in 1..size |-> IF i <= valid THEN "A" ELSE "."]

\* calls at the thresholds of the default rules: a binary content type;
\* bodies over 1024 bytes with 90% and with 90.1% of the sampled bytes in
\* the base64 alphabet, and one of 1024 bytes
ThresholdCalls ==
  {BodyCall(Nil, SampleBody(1100, 1000), ImageType),
   BodyCall(Nil, SampleBody(1100, 900), CSVType),
   BodyCall(Nil, SampleBody(1100, 901), CSVType),
   BodyCall(Nil, SampleBody(1024, 1024), CSVType)}

\* calls with bodies over 500KB and over 100KB, structured and not
LargeBodyCalls ==
  {BodyCall(Nil, SampleBody(500 * 1024 + 1, 0), XMLType),
   BodyCall(Nil, SampleBody(500 * 1024 + 1, 0), CSVType),
   BodyCall(Nil, SampleBody(100 * 1024 + 1, 0), XMLType)}

\* masks: the default, those of TestSanitizer_CustomFields and of the
\* CHEATSHEET, one of letters, one of '$' signs
CustomMasks ==
  {DefaultMask, <<"[","H","I","D","D","E","N","]">>, <<"*","*","*","H","I","D","D","E","N","*","*","*">>, <<"R","E","D","A","C","T","E","D">>, <<"$","$">>}

\* the default configuration with another mask
MaskConfig(mask) == [DefaultSanitizerConfig EXCEPT !.Mask = mask]

\* text and XML bodies in which the pattern detectors find a token with a
\* prefix group, a card number (no prefix group), and a token in the text of
\* an element beside a sensitive element
MaskedBodies ==
  {<<<<"A","u","t","h","o","r","i","z","a","t","i","o","n",":"," ","B","e","a","r","e","r"," ","s","k","-","1","2","3","4","5","6","7","8","9","0","a","b","c","d","e","f">>, TextType>>,
   <<<<"c","a","r","d"," ","4","1","1","1","1","1","1","1","1","1","1","1","1","1","1","1">>, TextType>>,
   <<<<"<","u","s","e","r",">","<","p","a","s","s","w","o","r","d",">","s","e","c","r","e","t","<","/","p","a","s","s","w","o","r","d",">","<","n","o","t","e",">","B","e","a","r","e","r"," ","a","b","c","1","2","3","d","e","f","<","/","n","o","t","e",">","<","/","u","s","e","r",">">>, XMLType>>}

\* calls of sanitizers configured with each mask
MaskCalls == {BodyCall(MaskConfig(mask), b[1], b[2]) : mask \in CustomMasks, b \in MaskedBodies}

Calls ==
  {BodyCall(Nil, b, JSONType) : b \in GeneratedBodies}
    \cup {BodyCall(c, b, t) : c \in {Nil, SanitizeJSONOnlyConfig, Truncate48Config},
                              b \in JSONBodies, t \in {JSONType, TextType}}
    \cup {BodyCall(c, b, TextType) : c \in {Nil, SanitizeJSONOnlyConfig, Truncate48Config},
                                     b \in TextBodies}
    \cup {BodyCall(c, <<"{","\"","p","a","s","s","w","o","r","d","\"",":","\"","h","u","n","t","e","r","2","\"","}">>, JSONType) : c \in {TruncateAllConfig}}
    \cup {BodyCall(Nil, Base64JSONBody, JSONType),
          BodyCall(Nil, <<"<","u","s","e","r",">","<","p","a","s","s","w","o","r","d",">","s","e","c","r","e","t","<","/","p","a","s","s","w","o","r","d",">","<","/","u","s","e","r",">">>, XMLType),
          BodyCall(Nil, <<"u","s","e","r","n","a","m","e","=","u","s","e","r","&","p","a","s","s","w","o","r","d","=","s","e","c","r","e","t","&","t","o","k","e","n","=","a","b","c","1","2","3">>, FormType),
          BodyCall(Nil, <<"-","-","B","\n","C","o","n","t","e","n","t","-","D","i","s","p","o","s","i","t","i","o","n",":"," ","f","o","r","m","-","d","a","t","a",";"," ","n","a","m","e","=","\"","p","a","s","s","w","o","r","d","\"","\n","\n","h","u","n","t","e","r","2","\n","-","-","B","-","-">>,
                   MultipartType),
          BodyCall(Nil, <<>>, JSONType),
          BodyCall(MaxBodySizeOnlyConfig, [i \in 1..1000 |-> "a"], TextType),
          BodyCall(Nil, [i \in 1..1000 |-> "a"], TextType),
          BodyCall(TruncateAllConfig, <<"{","\"","o","k","\"",":","1","}">>, JSONType),
          BodyCall(Nil, <<"u","s","e","r","=","%","z","z","&","p","a","s","s","w","o","r","d","=","s","e","c","r","e","t">>, FormType)}
    \cup {HeadersCall(CustomHeadersConfig,
                       (<<"A","u","t","h","o","r","i","z","a","t","i","o","n">> :> <<<<"B","e","a","r","e","r"," ","a","b","c","d","e","f","g","h","1","2","3","4","5","6","7","8">>>>) @@ (<<"X","-","C","u","s","t","o","m","-","A","u","t","h">> :> <<<<"c","u","s","t","o","m","-","s","e","c","r","e","t","-","1">>>>))}
    \cup {HeadersCall(c, h) :
            c \in {Nil, [DefaultSanitizerConfig EXCEPT !.HeaderMaskMode = HeaderMaskFull]},
            h \in {(<<"A","u","t","h","o","r","i","z","a","t","i","o","n">> :> <<<<"B","e","a","r","e","r"," ","a","b","c","d","e","f","g","h","1","2","3","4","5","6","7","8">>>>) @@ (<<"A","c","c","e","p","t">> :> <<<<"a">>, <<"b">>>>),
                   (<<"C","o","o","k","i","e">> :> <<<<"a","=","1">>>>),
                   (<<"X","-","A","u","t","h","o","r","i","z","a","t","i","o","n">> :> <<<<"s","e","c","r","e","t","-","t","o","k","e","n","-","1">>>>) @@ (<<"A","U","T","H","O","R","I","Z","A","T","I","O","N">> :> <<<<"B","e","a","r","e","r"," ","a","b","c","d","e","f","g","h","1","2","3","4","5","6","7","8">>>>),
                   (<<"S","e","t","-","C","o","o","k","i","e">> :> <<>>) @@ (<<"X","-","A","p","i","-","K","e","y">> :> <<<<"1","2","3","4","5","6","7","8">>>>)}}
    \cup {BodyCall(EmptySanitizerConfig, <<"{","\"","p","a","s","s","w","o","r","d","\"",":","\"","h","u","n","t","e","r","2","\"","}">>, JSONType),
          HeadersCall(EmptySanitizerConfig, (<<"A","u","t","h","o","r","i","z","a","t","i","o","n">> :> <<<<"B","e","a","r","e","r"," ","a","b","c","d","e","f","g","h","1","2","3","4","5","6","7","8">>>>))}
    \cup {BodyCall(Nil, b, XMLType) : b \in XMLBodies}
    \cup {BodyCall(Nil, b, TextType) : b \in SeveralTokenTexts}
    \cup {BodyCall(Nil, b, MultipartType) : b \in MultipartBodies}
    \cup MisleadingCalls
    \cup ThresholdCalls
    \cup MaskCalls


(***************************************************************************)
(* The state.  Of a RoundTrip call: the interceptor l, the request as it   *)
(* now is (req) and as the caller passed it (sent), where the call stands  *)
(* (pc), the request the transport was handed (seen), what the transport   *)
(* returned (outcome), what RoundTrip returned (returned), and the logger  *)
(* calls and transport invocations so far (events).  Of a direct call of   *)
(* the sanitizer: the call, what it returned (out) and, once the call was  *)
(* made a second time, what it had returned the first time (prev), and     *)
(* the outcome of SanitizerNoRegex on the same body (alt).  Of RoundTrip   *)
(* calls made concurrently on l: the parameters and locals of each (calls).*)
(* Of package errors: its variable ErrValidation; of the goroutines that   *)
(* call Validate: the position, input, details map and returned error of   *)
(* each (validations).                                                     *)
(***************************************************************************)
(* package errors, and Validator.Validate of package validator.  An error  *)
(* value (Go's error holding a *AppError) is Nil, or a pointer: to the     *)
(* package-level variable ErrValidation, or to an AppError of its own.     *)
(***************************************************************************)
\* errors.New
New(code, message, statusCode) ==
  [Code |-> code, Message |-> message, StatusCode |-> statusCode, Details |-> Nil, Err |-> Nil]

\* errors.Wrap
Wrap(err, code, message, statusCode) ==
  [Code |-> code, Message |-> message, StatusCode |-> statusCode, Details |-> Nil, Err |-> err]

\* ErrValidation as the package declares it
DeclaredErrValidation == New("validation_error", "Validation failed", 422)

\* &errors.ErrValidation, and the address of a newly allocated AppError
SentinelPointer == [to |-> "ErrValidation"]
NewPointer(e) == [to |-> "new", obj |-> e]

\* a validator.FieldError
FieldError(field, tag, param) == [Field |-> field, Tag |-> tag, Param |-> param]

\* formatFieldError
formatFieldError(e) ==
  CASE e.Tag = <<"r","e","q","u","i","r","e","d">> -> e.Field \o <<" ","i","s"," ","r","e","q","u","i","r","e","d">>
    [] e.Tag = <<"e","m","a","i","l">> -> e.Field \o <<" ","m","u","s","t"," ","b","e"," ","a"," ","v","a","l","i","d"," ","e","m","a","i","l"," ","a","d","d","r","e","s","s">>
    [] e.Tag = <<"m","i","n">> -> e.Field \o <<" ","m","u","s","t"," ","b","e"," ","a","t"," ","l","e","a","s","t"," ">> \o e.Param \o <<" ","c","h","a","r","a","c","t","e","r","s"," ","l","o","n","g">>
    [] e.Tag = <<"m","a","x">> -> e.Field \o <<" ","m","u","s","t"," ","b","e"," ","a","t"," ","m","o","s","t"," ">> \o e.Param \o <<" ","c","h","a","r","a","c","t","e","r","s"," ","l","o","n","g">>
    [] e.Tag = <<"g","t">> -> e.Field \o <<" ","m","u","s","t"," ","b","e"," ","g","r","e","a","t","e","r"," ","t","h","a","n"," ">> \o e.Param
    [] e.Tag = <<"g","t","e">> -> e.Field \o <<" ","m","u","s","t"," ","b","e"," ","g","r","e","a","t","e","r"," ","t","h","a","n"," ","o","r"," ","e","q","u","a","l"," ","t","o"," ">> \o e.Param
    [] e.Tag = <<"l","t">> -> e.Field \o <<" ","m","u","s","t"," ","b","e"," ","l","e","s","s"," ","t","h","a","n"," ">> \o e.Param
    [] e.Tag = <<"l","t","e">> -> e.Field \o <<" ","m","u","s","t"," ","b","e"," ","l","e","s","s"," ","t","h","a","n"," ","o","r"," ","e","q","u","a","l"," ","t","o"," ">> \o e.Param
    [] e.Tag = <<"o","n","e","o","f">> -> e.Field \o <<" ","m","u","s","t"," ","b","e"," ","o","n","e"," ","o","f"," ","[">> \o e.Param \o <<"]">>
    [] e.Tag = <<"u","r","l">> -> e.Field \o <<" ","m","u","s","t"," ","b","e"," ","a"," ","v","a","l","i","d"," ","U","R","L">>
    [] e.Tag = <<"u","u","i","d">> -> e.Field \o <<" ","m","u","s","t"," ","b","e"," ","a"," ","v","a","l","i","d"," ","U","U","I","D">>
    [] OTHER -> e.Field \o <<" ","f","a","i","l","e","d"," ","o","n"," ">> \o e.Tag \o <<" ","v","a","l","i","d","a","t","i","o","n">>

RECURSIVE detailsFrom(_, _, _)

\* the loop of formatValidationError over validationErrors from i on, details
\* being the map so far
detailsFrom(validationErrors, i, details) ==
  IF i > Len(validationErrors) THEN details
  ELSE detailsFrom(validationErrors, i + 1,
                   Assign(details, ToLower(validationErrors[i].Field),
                          formatFieldError(validationErrors[i])))

\* the map formatValidationError hands to WithDetails
detailsOf(validationErrors) == detailsFrom(validationErrors, 1, <<>>)

\* the inputs of Validate: values of the CreateUserInput of the usage
\* example (Name `validate:"required"`, Email `validate:"required,email"`),
\* and nil, which is no struct
Inputs ==
  {[Name |-> n, Email |-> e] : n \in {<<>>, <<"b","o","b">>}, e \in {<<>>, <<"b","o","b">>, <<"b","o","b","@","e","x","a","m","p","l","e",".","c","o","m">>}}
    \cup {Nil}

\* what v.validate.Struct(data) returns for the inputs: nil, the failed
\* fields in declared order, each with the first tag it fails, or an
\* InvalidValidationError for a value that is no struct
Struct(data) ==
  IF data = Nil THEN [type |-> "InvalidValidationError"]
  ELSE LET name == IF Len(data.Name) = 0 THEN <<FieldError(<<"N","a","m","e">>, <<"r","e","q","u","i","r","e","d">>, <<>>)>> ELSE <<>>
           email == IF Len(data.Email) = 0 THEN <<FieldError(<<"E","m","a","i","l">>, <<"r","e","q","u","i","r","e","d">>, <<>>)>>
                    ELSE IF ~Contains(data.Email, <<"@">>) THEN <<FieldError(<<"E","m","a","i","l">>, <<"e","m","a","i","l">>, <<>>)>>
                    ELSE <<>>
       IN IF Len(name \o email) = 0 THEN Nil
          ELSE [type |-> "ValidationErrors", errors |-> name \o email]

\* the goroutines that call Validate on one validator
Goroutines == {1, 2}

\* a goroutine that is not in a call of Validate and has made none
Idle == [pc |-> "idle", data |-> Nil, details |-> Nil, err |-> Nil]

(***************************************************************************)
VARIABLES l, req, sent, pc, seen, outcome, returned, events, call, out, prev, alt, calls,
          ErrValidation, validations

vars == <<l, req, sent, pc, seen, outcome, returned, events, call, out, prev, alt, calls, mapOrder,
          ErrValidation, validations>>

Init ==
  /\ l \in {NewLoggingRoundTripper(c) : c \in LoggingConfigs \cup {Nil}}
  /\ req \in Requests
  /\ sent = req
  /\ pc = "idle"
  /\ seen = Nil
  /\ outcome = Nil
  /\ returned = Nil
  /\ events = <<>>
  /\ call = Nil
  /\ out = Nil
  /\ prev = Nil
  /\ alt = Nil
  /\ calls = <<>>
  /\ ErrValidation = DeclaredErrValidation
  /\ validations = <<>>
  /\ mapOrder \in MapOrders

\* RoundTrip when ShouldLog refuses the request: return l.next.RoundTrip(req)
Bypass ==
  /\ pc = "idle"
  /\ ~shouldLog(l.config)
  /\ seen' = req
  /\ events' = Append(events, TransportCall)
  /\ outcome' \in Outcomes
  /\ returned' = outcome'
  /\ pc' = "done"
  /\ UNCHANGED <<ErrValidation, validations, l, req, sent, call, out, prev, alt, calls, mapOrder>>

\* RoundTrip up to the call of the transport: l.logRequest(req)
LogRequest ==
  /\ pc = "idle"
  /\ shouldLog(l.config)
  /\ \E r \in {logRequest(l, req)} :
       /\ req' = [req EXCEPT !.Body = r.body]
       /\ events' = events \o r.records
       /\ pc' = IF r.crash THEN "crashed" ELSE "logged"
  /\ UNCHANGED <<ErrValidation, validations, l, sent, seen, outcome, returned, call, out, prev, alt, calls, mapOrder>>

\* resp, err := l.next.RoundTrip(req)
Execute ==
  /\ pc = "logged"
  /\ seen' = req
  /\ events' = Append(events, TransportCall)
  /\ outcome' \in Outcomes
  /\ pc' = "executed"
  /\ UNCHANGED <<ErrValidation, validations, l, req, sent, returned, call, out, prev, alt, calls, mapOrder>>

\* RoundTrip after the transport returned: logError or logResponse, and the return
LogOutcome ==
  /\ pc = "executed"
  /\ \E duration \in 0..MaxDuration :
       IF outcome.err # Nil
       THEN /\ events' = events \o logError(l, req, outcome.err, duration)
            /\ returned' = [resp |-> Nil, err |-> outcome.err]
            /\ pc' = "done"
       ELSE \E r \in {logResponse(l, req, outcome.resp, duration)} :
              /\ events' = events \o r.records
              /\ returned' = IF r.crash THEN returned
                             ELSE [resp |-> [outcome.resp EXCEPT !.Body = r.body], err |-> Nil]
              /\ pc' = IF r.crash THEN "crashed" ELSE "done"
  /\ UNCHANGED <<ErrValidation, validations, l, req, sent, seen, outcome, call, out, prev, alt, calls, mapOrder>>

Next == Bypass \/ LogRequest \/ Execute \/ LogOutcome

Spec == Init /\ [][Next]_vars

(***************************************************************************)
(* Direct calls of the sanitizer                                           *)
(***************************************************************************)
SanitizerInit ==
  /\ l = NewLoggingRoundTripper(Nil)
  /\ req = Nil
  /\ sent = Nil
  /\ pc = "idle"
  /\ seen = Nil
  /\ outcome = Nil
  /\ returned = Nil
  /\ events = <<>>
  /\ call \in Calls
  /\ out = Nil
  /\ prev = Nil
  /\ alt = Nil
  /\ calls = <<>>
  /\ ErrValidation = DeclaredErrValidation
  /\ validations = <<>>
  /\ mapOrder \in MapOrders

\* NewSanitizer(config).SanitizeBody(body, contentType), the first or the
\* second time; the runtime goes on with some order of map keys
CallSanitizeBody ==
  /\ call # Nil
  /\ call.op = "SanitizeBody"
  /\ prev = Nil
  /\ \E r \in {SanitizeBody(NewSanitizer(call.config), call.body, call.contentType)} :
       out' = [overflow |-> r.overflow, text |-> r.text, headers |-> NoHeader]
  /\ prev' = out
  /\ mapOrder' \in MapOrders
  /\ UNCHANGED <<ErrValidation, validations, l, req, sent, pc, seen, outcome, returned, events, call, alt, calls>>

\* NewSanitizer(config).SanitizeHeaders(headers), the first or the second time
CallSanitizeHeaders ==
  /\ call # Nil
  /\ call.op = "SanitizeHeaders"
  /\ prev = Nil
  /\ out' = [overflow |-> FALSE, text |-> <<>>,
             headers |-> SanitizeHeaders(NewSanitizer(call.config), call.headers)]
  /\ prev' = out
  /\ mapOrder' \in MapOrders
  /\ UNCHANGED <<ErrValidation, validations, l, req, sent, pc, seen, outcome, returned, events, call, alt, calls>>

\* NewSanitizerNoRegex(nil).SanitizeBody(body, contentType), on the body and
\* content type of a call made with the default configuration
CallSanitizeBodyNoRegex ==
  /\ call # Nil
  /\ call.op = "SanitizeBody"
  /\ call.config = Nil
  /\ alt = Nil
  /\ alt' = SanitizeBodyNoRegex(NewSanitizerNoRegex(Nil), call.body, call.contentType)
  /\ mapOrder' \in MapOrders
  /\ UNCHANGED <<ErrValidation, validations, l, req, sent, pc, seen, outcome, returned, events, call, out, prev, calls>>

SanitizerNext == CallSanitizeBody \/ CallSanitizeHeaders \/ CallSanitizeBodyNoRegex

SanitizerSpec == SanitizerInit /\ [][SanitizerNext]_vars

\* the direct calls of the sanitizer, those with bodies over 100KB among them
LargeBodyInit ==
  /\ l = NewLoggingRoundTripper(Nil)
  /\ req = Nil
  /\ sent = Nil
  /\ pc = "idle"
  /\ seen = Nil
  /\ outcome = Nil
  /\ returned = Nil
  /\ events = <<>>
  /\ call \in Calls \cup LargeBodyCalls
  /\ out = Nil
  /\ prev = Nil
  /\ alt = Nil
  /\ calls = <<>>
  /\ ErrValidation = DeclaredErrValidation
  /\ validations = <<>>
  /\ mapOrder \in MapOrders

LargeBodySpec == LargeBodyInit /\ [][SanitizerNext]_vars

(***************************************************************************)
(* Properties of RoundTrip (specification Spec)                            *)
(***************************************************************************)
\* the bytes a body delivers to whoever reads it from where it stands
Delivers(body) == IF body = Nil THEN <<>> ELSE ReadAll(body).bytes

\* the next stage gets from body what it would have got from original
SameBody(body, original) ==
  (body = Nil) = (original = Nil) /\ Delivers(body) = Delivers(original)

\* logging applies to the call: ShouldLog is absent or returns true, a logger is set
LoggingApplies == shouldLog(l.config) /\ l.logger

\* C1: a RoundTrip call that returned has returned what the wrapped transport
\* produced: on failure the same error and no response, on success no error and
\* the same response, status code and headers unchanged, with a body that
\* yields the bytes the transport's response body would have yielded
C1_ReturnsTransportOutcome ==
  pc = "done" =>
    /\ returned.err = outcome.err
    /\ (returned.resp = Nil) = (outcome.resp = Nil)
    /\ outcome.resp # Nil =>
         /\ returned.resp.StatusCode = outcome.resp.StatusCode
         /\ returned.resp.Status = outcome.resp.Status
         /\ returned.resp.Header = outcome.resp.Header
         /\ SameBody(returned.resp.Body, outcome.resp.Body)

\* C2: once logRequest is over, the request body in place (the one the
\* transport is handed) delivers the bytes the caller's body held; once
\* logResponse is over, the response body in place delivers the bytes the
\* transport's body held.  This also on the paths where the transport fails
\* and where reading the original stream fails part-way
C2_BodyLeftReplayable ==
  /\ pc \in {"logged", "executed", "done"} => SameBody(req.Body, sent.Body)
  /\ pc \in {"executed", "done"} => SameBody(seen.Body, sent.Body)
  /\ (pc = "done" /\ outcome.resp # Nil) =>
       (returned.resp # Nil /\ SameBody(returned.resp.Body, outcome.resp.Body))

\* what each event of the call is: a log record's message, or the transport's call
EventKinds == [i \in 1..Len(events) |-> events[i].msg]

\* the record that follows the transport's return
OutcomeRecord ==
  IF outcome # Nil /\ outcome.err # Nil THEN "HTTP Request Failed" ELSE "HTTP Response"

\* C3: on a call logging applies to, the events so far are, in this order, one
\* request record, one call of the transport and one response or error record
\* (error exactly when the transport failed), as far as the call has got; a
\* call that is over has all three
C3_EventOrder ==
  LoggingApplies =>
    CASE pc = "idle" -> EventKinds = <<>>
      [] pc = "logged" -> EventKinds = <<"HTTP Request">>
      [] pc = "executed" -> EventKinds = <<"HTTP Request", "next">>
      [] pc \in {"done", "crashed"} -> EventKinds = <<"HTTP Request", "next", OutcomeRecord>>

\* C4: when ShouldLog returns false the call goes from idle to done in one
\* step, in which the transport is called once with the request as the caller
\* passed it, no logger operation is called, the request and the response body
\* stay the streams they were, nothing of them read, and the transport's result
\* is returned as it is
C4_BypassUntouched ==
  l.config.ShouldLog = "false" =>
    /\ pc \in {"idle", "done"}
    /\ req = sent
    /\ pc = "idle" => events = <<>>
    /\ pc = "done" =>
         /\ events = <<TransportCall>>
         /\ seen = sent
         /\ returned = outcome

\* C4 happens: a bypassed call is done on an interceptor that has a logger and
\* would log bodies, with a request body and a response body to leave alone
C4_Witness ==
  /\ l.config.ShouldLog = "false"
  /\ pc = "done"
  /\ l.logger /\ l.config.LogRequestBody /\ l.config.LogResponseBody
  /\ sent.Body # Nil
  /\ outcome.resp # Nil /\ outcome.resp.Body # Nil
  /\ returned.resp.Body = outcome.resp.Body

(***************************************************************************)
(* Properties of the sanitizer (specification SanitizerSpec)               *)
(***************************************************************************)
\* the SanitizeBody call of the state has returned
BodyCallReturned ==
  call # Nil /\ call.op = "SanitizeBody" /\ out # Nil /\ ~out.overflow

\* the configuration the called sanitizer works with
CallConfig == NewSanitizer(call.config)

\* the secret of match m of a detector at offset p of s: the part after group 1
\* where group 1 is a prefix of the match and not all of it, else the whole match
Secret(s, p, m) ==
  IF m.caps[1][1] = p /\ m.caps[1][2] >= p /\ m.caps[1][2] < m.end
  THEN Slice(s, m.caps[1][2], m.end)
  ELSE Slice(s, p, m.end)

\* C5: when a text body was sanitized under the default configuration, the
\* secret of every match of every configured detector in the body is no part
\* of the output
C5_SecretsRedacted ==
  (BodyCallReturned /\ call.config = Nil /\ call.contentType = TextType
     /\ ~looksLikeJSON(call.body) /\ ~looksLikeXML(call.body)) =>
    \A k \in 1..Len(CallConfig.SensitivePatterns) :
      \A p \in 0..Len(call.body) :
        MatchAt(Pattern(CallConfig.SensitivePatterns[k]), call.body, p).ok =>
          ~Contains(out.text,
                    Secret(call.body, p,
                           MatchAt(Pattern(CallConfig.SensitivePatterns[k]), call.body, p)))

\* no rule of cfg returns for the body: each rule whose condition holds has the action sanitize
NoRuleReturns(cfg, body, contentType) ==
  \A i \in 1..Len(cfg.BodyRules) :
    CondHolds(cfg.BodyRules[i].Condition, contentType, body, Len(body))
      => cfg.BodyRules[i].Action = BodyActionSanitize

\* the body of the call is a JSON document that reached structural sanitization
ReachedSanitizeJSON ==
  /\ BodyCallReturned
  /\ Len(call.body) > 0
  /\ NoRuleReturns(CallConfig, call.body, call.contentType)
  /\ (isJSON(call.contentType) \/ looksLikeJSON(call.body))
  /\ ValidJSON(call.body)

\* a string value that is itself a JSON document
IsEmbeddedJSON(v) == v.t = "str" /\ looksLikeJSON(v.s) /\ ValidJSON(v.s)

\* o is t with the value of every sensitive key replaced by the mask, at every
\* depth of objects and arrays and inside the strings that are JSON documents
RECURSIVE Masked(_, _, _)
Masked(cfg, t, o) ==
  CASE t.t = "obj" ->
         /\ o.t = "obj" /\ DOMAIN o.m = DOMAIN t.m
         /\ \A key \in DOMAIN t.m :
              IF isSensitiveField(cfg, key) THEN o.m[key] = JStr(cfg.Mask)
              ELSE Masked(cfg, t.m[key], o.m[key])
    [] t.t = "arr" ->
         /\ o.t = "arr" /\ Len(o.a) = Len(t.a)
         /\ \A i \in 1..Len(t.a) : Masked(cfg, t.a[i], o.a[i])
    [] IsEmbeddedJSON(t) ->
         /\ o.t = "str" /\ ValidJSON(o.s)
         /\ Masked(cfg, Unmarshal(t.s).v, Unmarshal(o.s).v)
    [] OTHER -> TRUE

\* the strings and numerals that t holds as or within the value of a sensitive
\* key (beneath: t lies within such a value)
RECURSIVE SensitiveValues(_, _, _)
SensitiveValues(cfg, t, beneath) ==
  CASE t.t = "obj" ->
         UNION {SensitiveValues(cfg, t.m[key], beneath \/ isSensitiveField(cfg, key)) : key \in DOMAIN t.m}
    [] t.t = "arr" ->
         UNION {SensitiveValues(cfg, t.a[i], beneath) : i \in 1..Len(t.a)}
    [] IsEmbeddedJSON(t) -> SensitiveValues(cfg, Unmarshal(t.s).v, beneath)
    [] t.t = "str" -> IF beneath /\ Len(t.s) > 0 THEN {t.s} ELSE {}
    [] t.t = "num" -> IF beneath THEN {t.lit} ELSE {}
    [] OTHER -> {}

\* t with the value of every sensitive key taken out (null in its place), at
\* every depth and inside the strings that are JSON documents
RECURSIVE Blank(_, _)
Blank(cfg, t) ==
  CASE t.t = "obj" ->
         JObj([key \in DOMAIN t.m |->
                 IF isSensitiveField(cfg, key) THEN JNull ELSE Blank(cfg, t.m[key])])
    [] t.t = "arr" -> JArr([i \in 1..Len(t.a) |-> Blank(cfg, t.a[i])])
    [] IsEmbeddedJSON(t) -> JStr(MarshalIndent(Blank(cfg, Unmarshal(t.s).v), <<" ", " ">>))
    [] OTHER -> t

\* what structural sanitization returns for the document of body once the
\* values of its sensitive keys are taken out
SanitizedBlank(cfg, body) ==
  MarshalIndent(sanitizeValue(cfg, Blank(cfg, Unmarshal(body).v)), <<" ", " ">>)

C7_ValidJSONOut ==
  (BodyCallReturned /\ call.config = Nil /\ ValidJSON(call.body)) => ValidJSON(out.text)

\* C7 amended: SanitizeBody returns valid JSON for every valid JSON body that
\* no rule returns for and that is taken for JSON (by its content type or its
\* first and last byte)
C7_ValidJSONWhenSanitized ==
  ReachedSanitizeJSON => ValidJSON(out.text)

\* C7 happens: a valid JSON body that holds a JSON document in a string (so
\* that quotes are to be escaped) was sanitized under the default configuration
C7_Witness ==
  /\ ReachedSanitizeJSON
  /\ call.config = Nil
  /\ Contains(call.body, <<"\\", "\"">>)
  /\ Contains(out.text, <<"\\", "\"">>)
  /\ out.text # call.body

\* no configured detector matches in s
NoDetectorMatches(cfg, s) ==
  \A k \in 1..Len(cfg.SensitivePatterns) : ~Matches(Pattern(cfg.SensitivePatterns[k]), s)

\* o holds, for every key of t that is not sensitive and lies beneath none, the
\* value t holds: numbers, booleans and null as they were read, strings as they
\* were unless they are JSON documents (sanitized in turn) or a detector matches
RECURSIVE Preserved(_, _, _)
Preserved(cfg, t, o) ==
  CASE t.t = "obj" ->
         /\ o.t = "obj"
         /\ \A key \in DOMAIN t.m :
              ~isSensitiveField(cfg, key) =>
                key \in DOMAIN o.m /\ Preserved(cfg, t.m[key], o.m[key])
    [] t.t = "arr" ->
         /\ o.t = "arr" /\ Len(o.a) = Len(t.a)
         /\ \A i \in 1..Len(t.a) : Preserved(cfg, t.a[i], o.a[i])
    [] IsEmbeddedJSON(t) ->
         /\ o.t = "str" /\ ValidJSON(o.s)
         /\ Preserved(cfg, Unmarshal(t.s).v, Unmarshal(o.s).v)
    [] t.t = "str" -> o.t = "str" /\ (NoDetectorMatches(cfg, t.s) => o.s = t.s)
    [] t.t = "num" -> o.t = "num" /\ o.lit = t.lit
    [] OTHER -> o = t

\* C8: when a JSON body was sanitized, every key that is not sensitive has in
\* the output the value it had in the body
C8_ValuesPreserved ==
  ReachedSanitizeJSON =>
    /\ ValidJSON(out.text)
    /\ Preserved(CallConfig, Unmarshal(call.body).v, Unmarshal(out.text).v)

\* the first rule of cfg whose condition holds for the body (-1: none)
FirstMatchingRule(cfg, body, contentType) ==
  First({i \in 1..Len(cfg.BodyRules) :
           CondHolds(cfg.BodyRules[i].Condition, contentType, body, Len(body))})

\* the first rule whose condition holds, if there is one, neither skips nor summarizes
NoSkipOrSummarizeFirst(cfg, body, contentType) ==
  FirstMatchingRule(cfg, body, contentType) > 0 =>
    cfg.BodyRules[FirstMatchingRule(cfg, body, contentType)].Action
      \notin {BodyActionSkip, BodyActionSummarize}

\* what SanitizeBody returns when rule decides (a truncation of a body that is
\* not over MaxBodySize is left open)
DecidedBy(cfg, rule, body, contentType, text) ==
  CASE rule.Action = BodyActionSkip ->
         text = (IF Len(rule.Message) # 0 THEN rule.Message ELSE <<"[","B","o","d","y"," ","n","o","t"," ","l","o","g","g","e","d","]">>)
    [] rule.Action = BodyActionSummarize ->
         text = summarizeBody(cfg, body, contentType, Len(body))
    [] rule.Action = BodyActionTruncate ->
         Len(body) > cfg.MaxBodySize => HasSuffix(text, TruncationNotice(Len(body)))
    [] rule.Action = BodyActionSanitize ->
         text = sanitizeByFormat(cfg, body, contentType)

\* C9: what SanitizeBody returned for a body is what the first rule whose
\* condition holds decides, whatever its action; for the action sanitize it is
\* the format-specific sanitization of the body
C9_FirstMatchingRuleDecides ==
  (BodyCallReturned /\ Len(call.body) > 0
     /\ FirstMatchingRule(CallConfig, call.body, call.contentType) > 0) =>
    DecidedBy(CallConfig,
              CallConfig.BodyRules[FirstMatchingRule(CallConfig, call.body, call.contentType)],
              call.body, call.contentType, out.text)

\* C10: when the rule that decides truncates a body over MaxBodySize, the
\* output is the sanitization of the first MaxBodySize bytes, then the notice
C10_TruncatedPrefixSanitized ==
  (BodyCallReturned /\ Len(call.body) > CallConfig.MaxBodySize
     /\ FirstMatchingRule(CallConfig, call.body, call.contentType) > 0
     /\ CallConfig.BodyRules[FirstMatchingRule(CallConfig, call.body, call.contentType)].Action
          = BodyActionTruncate) =>
    out.text = sanitizeByFormat(CallConfig, Slice(call.body, 0, CallConfig.MaxBodySize),
                                call.contentType)
                 \o TruncationNotice(Len(call.body))

\* C11: when SanitizeBody returned for a body longer than MaxBodySize, and the
\* first rule whose condition holds (if any) neither skips nor summarizes, the
\* output holds the truncation notice with the body's total size and is no
\* longer than MaxBodySize plus the notice
C11_SizeBound ==
  (BodyCallReturned /\ Len(call.body) > CallConfig.MaxBodySize
     /\ NoSkipOrSummarizeFirst(CallConfig, call.body, call.contentType)) =>
    /\ Contains(out.text, TruncationNotice(Len(call.body)))
    /\ Len(out.text) <= CallConfig.MaxBodySize + Len(TruncationNotice(Len(call.body)))

\* C12: a call of SanitizeBody or SanitizeHeaders made a second time on the
\* same sanitizer with the same arguments returns what it returned the first
\* time (the same bytes, the same map), whatever the order in which the runs
\* visit the keys of their maps
C12_Deterministic ==
  prev # Nil => out = prev

\* C12 happens: a form body of several keys, or headers of several names, were
\* sanitized twice, the second run having visited map keys in the other order
C12_Witness ==
  /\ prev # Nil
  /\ mapOrder = "decreasing"
  /\ \/ /\ call.op = "SanitizeBody"
        /\ call.contentType = FormType
        /\ Contains(out.text, <<"&">>)
        /\ Contains(out.text, CallConfig.Mask)
     \/ /\ call.op = "SanitizeHeaders"
        /\ Cardinality(DOMAIN out.headers) > 1

\* the body of the call went to the JSON sanitizer and is no JSON document
MalformedJSON ==
  /\ NoRuleReturns(CallConfig, call.body, call.contentType)
  /\ (isJSON(call.contentType) \/ looksLikeJSON(call.body))
  /\ ~Unmarshal(call.body).ok

\* the body of the call went to the form sanitizer and url.ParseQuery refused it
MalformedForm ==
  /\ NoRuleReturns(CallConfig, call.body, call.contentType)
  /\ ~(isJSON(call.contentType) \/ looksLikeJSON(call.body))
  /\ ~(isXML(call.contentType) \/ looksLikeXML(call.body))
  /\ isFormURLEncoded(call.contentType)
  /\ ParseQuery(call.body).err

\* a SanitizeBody call was made on a body that is not empty
BodyCallMade == call # Nil /\ call.op = "SanitizeBody" /\ out # Nil /\ Len(call.body) > 0

\* C13: every SanitizeBody call returns (it does not end the program), and for
\* a body that does not parse as the format it was taken for (JSON, form) it
\* returns what the pattern detectors make of the raw text
C13_FallsBackAndReturns ==
  BodyCallMade =>
    /\ ~out.overflow
    /\ (MalformedJSON \/ MalformedForm) => out.text = sanitizeText(CallConfig, call.body)

\* the part of C13 about bodies that do not parse, for the calls that returned
C13_FallsBackToText ==
  (BodyCallMade /\ ~out.overflow /\ (MalformedJSON \/ MalformedForm)) =>
    out.text = sanitizeText(CallConfig, call.body)

\* the events of the call that are logger calls at the level op
RecordsAt(op) == SelectSeq(events, LAMBDA e : e.op = op)

\* the names of the fields of a log record, in order
FieldNames(record) == [i \in 1..Len(record.fields) |-> record.fields[i][1]]

\* the value of the field name of a log record
FieldValue(record, name) ==
  record.fields[CHOOSE i \in 1..Len(record.fields) : record.fields[i][1] = name][2]

\* the call is over, the wrapped transport having returned an error
TransportFailed == pc = "done" /\ outcome.err # Nil

\* what C14 states of a call whose transport failed: one record at the error
\* level, with the method, the sanitized URL, the error text and the duration
\* and nothing else; no response record; the error returned as it was
ErrorLoggedOnce ==
  /\ Len(RecordsAt("Error")) = 1
  /\ RecordsAt("Error")[1].msg = "HTTP Request Failed"
  /\ FieldNames(RecordsAt("Error")[1]) = <<"method", "url", "error", "duration_ms">>
  /\ FieldValue(RecordsAt("Error")[1], "method") = sent.Method
  /\ FieldValue(RecordsAt("Error")[1], "url") = sanitizeURL(l.sanitizer, sent.URL)
  /\ FieldValue(RecordsAt("Error")[1], "error") = outcome.err.text
  /\ FieldValue(RecordsAt("Error")[1], "duration_ms") \in 0..MaxDuration
  /\ \A i \in 1..Len(events) : events[i].msg # "HTTP Response"
  /\ returned = [resp |-> Nil, err |-> outcome.err]

\* C14 as stated: whenever the wrapped transport returned an error, one error
\* record of that content was written, no response record, and the error was
\* returned unchanged
C14_ErrorLoggedOnce ==
  TransportFailed => ErrorLoggedOnce

\* C14 amended: the same on the calls that logging applies to (a logger is
\* set, ShouldLog is absent or returns true)
C14_ErrorLoggedOnceWhenLogging ==
  (TransportFailed /\ LoggingApplies) => ErrorLoggedOnce

\* C14 happens: the transport failed on a logged call whose request has
\* headers, a body and a query that the error record does not show as sent
C14_Witness ==
  /\ TransportFailed /\ LoggingApplies
  /\ l.config.LogHeaders /\ l.config.LogRequestBody
  /\ DOMAIN sent.Header # {} /\ sent.Body # Nil
  /\ Len(sent.URL.RawQuery) > 0
  /\ ~Contains(FieldValue(RecordsAt("Error")[1], "url"), sent.URL.RawQuery)

(***************************************************************************)
(* Properties of the name matchers                                         *)
(***************************************************************************)
\* a and b are the same string once both are lower-cased
EqualFold(a, b) ==
  Len(a) = Len(b) /\ \A i \in 1..Len(a) : LowerOf[a[i]] = LowerOf[b[i]]

\* s, lower-cased, has sub, lower-cased, as a substring
ContainsFold(s, sub) ==
  \E p \in 0..(Len(s) - Len(sub)) : \A k \in 1..Len(sub) : LowerOf[s[p + k]] = LowerOf[sub[k]]

\* the names the call hands to the matchers: the header names of a
\* SanitizeHeaders call, the top-level keys of a JSON object body
CallNames ==
  IF call.op = "SanitizeHeaders" THEN DOMAIN call.headers
  ELSE IF ReachedSanitizeJSON /\ Unmarshal(call.body).v.t = "obj"
       THEN DOMAIN Unmarshal(call.body).v.m
       ELSE {}

\* C15: isSensitiveField is true exactly of the names that, lower-cased,
\* contain a configured sensitive field (lower-cased); isSensitiveHeader is
\* true exactly of the names that, lower-cased, equal a configured sensitive
\* header (lower-cased); SanitizeHeaders masks the headers of the second kind
\* and no other, whatever sensitive name their name contains
C15_NameMatching ==
  (call # Nil /\ out # Nil /\ ~out.overflow) =>
    /\ \A name \in CallNames :
         /\ isSensitiveField(CallConfig, name)
              <=> \E i \in 1..Len(CallConfig.SensitiveFields) :
                    ContainsFold(name, CallConfig.SensitiveFields[i])
         /\ isSensitiveHeader(CallConfig, name)
              <=> \E i \in 1..Len(CallConfig.SensitiveHeaders) :
                    EqualFold(name, CallConfig.SensitiveHeaders[i])
    /\ call.op = "SanitizeHeaders" =>
         \A name \in DOMAIN call.headers :
           out.headers[name] =
             IF \E i \in 1..Len(CallConfig.SensitiveHeaders) :
                  EqualFold(name, CallConfig.SensitiveHeaders[i])
             THEN maskHeaderValue(CallConfig, call.headers[name])
             ELSE Join(call.headers[name], <<",", " ">>)
    /\ call.op = "SanitizeBody" =>
         \A name \in CallNames :
           (\E i \in 1..Len(CallConfig.SensitiveFields) :
              ContainsFold(name, CallConfig.SensitiveFields[i]))
             => Unmarshal(out.text).v.m[name] = JStr(CallConfig.Mask)

\* C15 happens: SanitizeHeaders returned for a header whose name contains a
\* sensitive header's name and is none, left as it was, and one whose name is
\* a sensitive header's in other case, masked
C15_Witness ==
  /\ call # Nil /\ call.op = "SanitizeHeaders" /\ out # Nil
  /\ \E name \in DOMAIN call.headers :
       /\ \E i \in 1..Len(CallConfig.SensitiveHeaders) :
            ContainsFold(name, CallConfig.SensitiveHeaders[i])
       /\ ~isSensitiveHeader(CallConfig, name)
       /\ out.headers[name] = Join(call.headers[name], <<",", " ">>)
  /\ \E name \in DOMAIN call.headers :
       /\ name \notin {CallConfig.SensitiveHeaders[i] : i \in 1..Len(CallConfig.SensitiveHeaders)}
       /\ isSensitiveHeader(CallConfig, name)
       /\ out.headers[name] # Join(call.headers[name], <<",", " ">>)

\* C15 happens for fields: a JSON object came back with a key masked that
\* contains a sensitive field's name in other case and is longer
C15_FieldWitness ==
  /\ call # Nil /\ call.op = "SanitizeBody" /\ out # Nil /\ ~out.overflow
  /\ \E name \in CallNames :
       /\ isSensitiveField(CallConfig, name)
       /\ \A i \in 1..Len(CallConfig.SensitiveFields) :
            ~Contains(name, CallConfig.SensitiveFields[i])
       /\ Unmarshal(out.text).v.m[name] = JStr(CallConfig.Mask)

(***************************************************************************)
(* Properties of SanitizeHeaders                                           *)
(***************************************************************************)
\* a SanitizeHeaders call returned, of a sanitizer in one of the two mask modes
HeadersCallReturned ==
  /\ call # Nil /\ call.op = "SanitizeHeaders" /\ out # Nil
  /\ CallConfig.HeaderMaskMode \in {HeaderMaskFull, HeaderMaskPartial}

\* the string C16 states for a sensitive header whose joined value is value
StatedMask(cfg, value) ==
  IF cfg.HeaderMaskMode = HeaderMaskFull \/ Len(value) <= 8 THEN cfg.Mask
  ELSE SubSeq(value, 1, 4) \o cfg.Mask \o SubSeq(value, Len(value) - 3, Len(value))

C16_MaskWitness ==
  /\ HeadersCallReturned
  /\ \E name \in DOMAIN call.headers :
       /\ isSensitiveHeader(CallConfig, name)
       /\ out.headers[name] = CallConfig.Mask
       /\ \/ CallConfig.HeaderMaskMode = HeaderMaskPartial /\ Len(Join(call.headers[name], <<",", " ">>)) = 8
          \/ CallConfig.HeaderMaskMode = HeaderMaskFull /\ Len(Join(call.headers[name], <<",", " ">>)) > 8

\* C17: whatever sensitive headers the configuration lists, SanitizeHeaders
\* masks every header whose name is one of the built-in sensitive headers
C17_BuiltInHeadersMasked ==
  (call # Nil /\ call.op = "SanitizeHeaders" /\ out # Nil) =>
    \A name \in DOMAIN call.headers :
      (\E i \in 1..Len(DefaultSensitiveHeaders) : EqualFold(name, DefaultSensitiveHeaders[i]))
        => out.headers[name] = maskHeaderValue(CallConfig, call.headers[name])

\* a sanitizer built from a configuration that lists custom sensitive headers
\* was handed a header of a built-in sensitive name and one of a custom name
C17_CustomHeadersCall ==
  /\ call # Nil /\ call.op = "SanitizeHeaders" /\ out # Nil
  /\ call.config # Nil /\ Len(call.config.SensitiveHeaders) > 0
  /\ \E name \in DOMAIN call.headers :
       \E i \in 1..Len(DefaultSensitiveHeaders) : EqualFold(name, DefaultSensitiveHeaders[i])
  /\ \E name \in DOMAIN call.headers :
       /\ \E i \in 1..Len(call.config.SensitiveHeaders) : EqualFold(name, call.config.SensitiveHeaders[i])
       /\ out.headers[name] = maskHeaderValue(CallConfig, call.headers[name])

(***************************************************************************)
(* Properties of the URL and query fields                                  *)
(***************************************************************************)
\* the values, as written in rawQuery, of the parameters whose name is sensitive
SensitiveQueryValues(san, rawQuery) ==
  {Cut(pair, <<"=">>).after :
     pair \in {p \in {Split(rawQuery, "&")[i] : i \in 1..Len(Split(rawQuery, "&"))} :
                 /\ isSensitiveField(san, Cut(p, <<"=">>).before)
                 /\ Len(Cut(p, <<"=">>).after) > 0}}

\* the values of the url and query fields of the records written so far
URLFields ==
  {events[i].fields[j][2] :
     <<i, j>> \in {x \in (1..Len(events)) \X (1..4) :
                     /\ x[2] <= Len(events[x[1]].fields)
                     /\ events[x[1]].fields[x[2]][1] \in {"url", "query"}}}

\* C18: whatever the raw query, well-formed or not, no url or query field of a
\* record holds the value a sensitive query parameter was sent with
C18_NoSensitiveQueryValue ==
  \A field \in URLFields :
    \A value \in SensitiveQueryValues(l.sanitizer, sent.URL.RawQuery) :
      ~Contains(field, value)

\* the url and query fields were written for a well-formed query with a
\* sensitive parameter, and hold the escaped mask in place of its value
C18_WellFormedQueryMasked ==
  /\ pc = "done" /\ URLFields # {}
  /\ ~ParseQuery(sent.URL.RawQuery).err
  /\ SensitiveQueryValues(l.sanitizer, sent.URL.RawQuery) # {}
  /\ \A field \in URLFields :
       /\ Contains(field, QueryEscape(l.sanitizer.Mask))
       /\ \A value \in SensitiveQueryValues(l.sanitizer, sent.URL.RawQuery) : ~Contains(field, value)

(***************************************************************************)
(* Sanitizer and SanitizerNoRegex compared                                 *)
(***************************************************************************)
\* the conformance body inputs: the JSON object, the JSON array, the JSON
\* held in a JSON string, the text with a bearer token, the body of 1000
\* bytes and the empty body
ConformanceInputs ==
  {<<<<"{","\"","u","s","e","r","n","a","m","e","\"",":","\"","u","s","e","r","\"",",","\"","p","a","s","s","w","o","r","d","\"",":","\"","s","e","c","r","e","t","1","2","3","\"","}">>, JSONType>>,
   <<<<"[","{","\"","i","d","\"",":","1",",","\"","t","o","k","e","n","\"",":","\"","t","o","k","1","\"","}",",","{","\"","i","d","\"",":","2",",","\"","t","o","k","e","n","\"",":","\"","t","o","k","2","\"","}","]">>, JSONType>>,
   <<<<"{","\"","c","o","n","f","i","g","\"",":","\"","{","\\","\"","a","p","i","_","k","e","y","\\","\"",":","\\","\"","s","k","-","1","2","3","\\","\"",",","\\","\"","s","e","c","r","e","t","\\","\"",":","\\","\"","m","y","s","e","c","r","e","t","\\","\"","}","\"","}">>, JSONType>>,
   <<<<"A","u","t","h","o","r","i","z","a","t","i","o","n",":"," ","B","e","a","r","e","r"," ","s","k","-","1","2","3","4","5","6","7","8","9","0","a","b","c","d","e","f">>, TextType>>,
   <<[i \in 1..1000 |-> "a"], TextType>>,
   <<<<>>, JSONType>>}

\* both sanitizers, each with its default configuration, were called with the
\* body and content type of the call
BothCalled ==
  /\ call # Nil /\ call.op = "SanitizeBody" /\ call.config = Nil
  /\ out # Nil /\ alt # Nil

\* C19: on each conformance input, Sanitizer and SanitizerNoRegex, with their
\* default configurations, both return, and return the same string: the same
\* values are masked and the same text is kept
C19_SameMasking ==
  (BothCalled /\ <<call.body, call.contentType>> \in ConformanceInputs) =>
    /\ ~out.overflow
    /\ alt.fail = "none"
    /\ alt.text = out.text

\* C19 happens: both sanitizers have returned for a conformance input that
\* holds a secret, the mask standing in what they return
C19_Witness ==
  /\ BothCalled /\ <<call.body, call.contentType>> \in ConformanceInputs
  /\ call.contentType = TextType
  /\ Contains(call.body, <<"s","k","-","1","2","3","4","5","6","7","8","9","0","a","b","c","d","e","f">>)
  /\ Contains(alt.text, <<"B","e","a","r","e","r"," ">> \o DefaultMask)
  /\ ~Contains(out.text, <<"s","k","-","1","2","3","4","5","6","7","8","9","0","a","b","c","d","e","f">>)

\* a stronger statement than C19, which does not hold: that the two
\* sanitizers return the same for every body of the model (of a card number
\* SanitizerNoRegex leaves the last three digits after the mask)
SameOnEveryCall ==
  BothCalled => ~out.overflow /\ alt.fail = "none" /\ alt.text = out.text

(***************************************************************************)
(* RoundTrip calls made concurrently on one interceptor.  Each call has    *)
(* its own parameters and locals (req, resp, err, start, duration); the    *)
(* interceptor l is what the calls share.  A step of a call is the code    *)
(* between two points where another goroutine can be scheduled in a way    *)
(* the logger or the transport can observe: up to the call of the          *)
(* transport, the call of the transport, and after it.  The stack overflow *)
(* of a goroutine is a fatal error of the Go runtime: it ends the process, *)
(* and with it every other call.                                           *)
(***************************************************************************)
CallIds == {1, 2}

\* the parameters and locals of call i of RoundTrip
Locals(cs, i) == cs[i]

\* the call of RoundTrip(r) before its first statement
NewCall(r) ==
  [sent |-> r, req |-> r, pc |-> "idle", seen |-> Nil, outcome |-> Nil, duration |-> Nil,
   returned |-> Nil, events |-> <<>>]

\* the configurations of the interceptor the concurrent calls are made on
ConcurrentConfigs ==
  {c \in LoggingConfigs : /\ c.Logger /\ c.LogRequestBody /\ c.LogResponseBody
                          /\ c.LogHeaders /\ ~c.Verbose /\ c.ShouldLogBody = "nil"}

\* a goroutine overflowed its stack: the runtime has ended the process
ProcessDied == \E i \in CallIds : calls[i].pc = "crashed"

ConcurrentInit ==
  /\ l \in {NewLoggingRoundTripper(c) : c \in ConcurrentConfigs}
  /\ calls \in [CallIds -> {NewCall(r) : r \in Requests}]
  /\ ErrValidation = DeclaredErrValidation
  /\ validations = <<>>
  /\ req = Nil
  /\ sent = Nil
  /\ pc = "idle"
  /\ seen = Nil
  /\ outcome = Nil
  /\ returned = Nil
  /\ events = <<>>
  /\ call = Nil
  /\ out = Nil
  /\ prev = Nil
  /\ alt = Nil
  /\ mapOrder \in MapOrders

\* call i of RoundTrip when ShouldLog refuses the request
ConcurrentBypass(i) ==
  /\ ~ProcessDied
  /\ Locals(calls, i).pc = "idle"
  /\ ~shouldLog(l.config)
  /\ \E o \in Outcomes :
       calls' = [calls EXCEPT ![i].seen = Locals(calls, i).req,
                              ![i].events = Append(Locals(calls, i).events, TransportCall),
                              ![i].outcome = o,
                              ![i].returned = o,
                              ![i].pc = "done"]
  /\ UNCHANGED <<ErrValidation, validations, l, req, sent, pc, seen, outcome, returned, events, call, out, prev, alt, mapOrder>>

\* call i of RoundTrip up to the call of the transport: l.logRequest(req)
ConcurrentLogRequest(i) ==
  /\ ~ProcessDied
  /\ Locals(calls, i).pc = "idle"
  /\ shouldLog(l.config)
  /\ \E r \in {logRequest(l, Locals(calls, i).req)} :
       calls' = [calls EXCEPT ![i].req = [Locals(calls, i).req EXCEPT !.Body = r.body],
                              ![i].events = Locals(calls, i).events \o r.records,
                              ![i].pc = IF r.crash THEN "crashed" ELSE "logged"]
  /\ UNCHANGED <<ErrValidation, validations, l, req, sent, pc, seen, outcome, returned, events, call, out, prev, alt, mapOrder>>

\* call i: resp, err := l.next.RoundTrip(req)
ConcurrentExecute(i) ==
  /\ ~ProcessDied
  /\ Locals(calls, i).pc = "logged"
  /\ \E o \in Outcomes :
       calls' = [calls EXCEPT ![i].seen = Locals(calls, i).req,
                              ![i].events = Append(Locals(calls, i).events, TransportCall),
                              ![i].outcome = o,
                              ![i].pc = "executed"]
  /\ UNCHANGED <<ErrValidation, validations, l, req, sent, pc, seen, outcome, returned, events, call, out, prev, alt, mapOrder>>

\* call i after the transport returned: logError or logResponse, and the return
ConcurrentLogOutcome(i) ==
  /\ ~ProcessDied
  /\ Locals(calls, i).pc = "executed"
  /\ \E duration \in 0..MaxDuration :
       IF Locals(calls, i).outcome.err # Nil
       THEN calls' = [calls EXCEPT ![i].duration = duration,
                                   ![i].events = Locals(calls, i).events
                                                   \o logError(l, Locals(calls, i).req,
                                                               Locals(calls, i).outcome.err, duration),
                                   ![i].returned = [resp |-> Nil, err |-> Locals(calls, i).outcome.err],
                                   ![i].pc = "done"]
       ELSE \E r \in {logResponse(l, Locals(calls, i).req, Locals(calls, i).outcome.resp, duration)} :
              calls' = [calls EXCEPT ![i].duration = duration,
                                     ![i].events = Locals(calls, i).events \o r.records,
                                     ![i].returned =
                                       IF r.crash THEN Locals(calls, i).returned
                                       ELSE [resp |-> [Locals(calls, i).outcome.resp EXCEPT !.Body = r.body],
                                             err |-> Nil],
                                     ![i].pc = IF r.crash THEN "crashed" ELSE "done"]
  /\ UNCHANGED <<ErrValidation, validations, l, req, sent, pc, seen, outcome, returned, events, call, out, prev, alt, mapOrder>>

ConcurrentNext ==
  \E i \in CallIds :
    ConcurrentBypass(i) \/ ConcurrentLogRequest(i) \/ ConcurrentExecute(i) \/ ConcurrentLogOutcome(i)

ConcurrentSpec == ConcurrentInit /\ [][ConcurrentNext]_vars

(***************************************************************************)
(* C20: concurrent RoundTrip calls on one interceptor                      *)
(***************************************************************************)
\* RoundTrip(r) by itself, from logResponse on: what the call leaves once
\* logResponse made the logger calls p.records
AloneFromResponse(o, r, ev, p) ==
  [req |-> r, events |-> ev \o p.records,
   returned |-> IF p.crash THEN Nil ELSE [resp |-> [o.resp EXCEPT !.Body = p.body], err |-> Nil],
   pc |-> IF p.crash THEN "crashed" ELSE "done"]

\* RoundTrip(r) by itself, from the return of the transport on
AloneFromTransport(lrt, o, d, r, ev) ==
  IF o.err # Nil
  THEN [req |-> r, events |-> ev \o logError(lrt, r, o.err, d),
        returned |-> [resp |-> Nil, err |-> o.err], pc |-> "done"]
  ELSE AloneFromResponse(o, r, ev, logResponse(lrt, r, o.resp, d))

\* RoundTrip(r) by itself, once logRequest made the logger calls q.records
AloneFromRequest(lrt, o, d, r, q) ==
  IF q.crash
  THEN [req |-> [r EXCEPT !.Body = q.body], events |-> q.records, returned |-> Nil, pc |-> "crashed"]
  ELSE AloneFromTransport(lrt, o, d, [r EXCEPT !.Body = q.body], Append(q.records, TransportCall))

\* RoundTrip(r) as the only call on the interceptor lrt, when the transport
\* returns o and the call is measured to take d: the request as it is left,
\* the logger calls and transport invocations, and what is returned
RoundTripAlone(lrt, r, o, d) ==
  IF ~shouldLog(lrt.config)
  THEN [req |-> r, events |-> <<TransportCall>>, returned |-> o, pc |-> "done"]
  ELSE AloneFromRequest(lrt, o, d, r, logRequest(lrt, r))

\* call i has ended, and with the records, the request and the return value
\* it would have ended with as the only call
EndedAsAlone(c, alone) ==
  /\ c.pc = alone.pc
  /\ c.events = alone.events
  /\ c.returned = alone.returned
  /\ c.req = alone.req

SameAsAlone(i) ==
  /\ calls[i].pc \in {"done", "crashed"}
  /\ EndedAsAlone(calls[i], RoundTripAlone(l, calls[i].sent, calls[i].outcome, calls[i].duration))

\* no call can take a step any more
Quiescent == ProcessDied \/ \A i \in CallIds : calls[i].pc = "done"

\* the interceptor is as NewLoggingRoundTripper built it from its configuration
InterceptorAsBuilt == l = NewLoggingRoundTripper(l.config)

\* C20: under every interleaving of RoundTrip calls on one interceptor, the
\* interceptor and its sanitizer configuration stay as construction left
\* them, and once the calls are over every call has made the logger calls
\* and returned what it would have made and returned as the only call
C20_CallsIsolated ==
  /\ InterceptorAsBuilt
  /\ Quiescent => \A i \in CallIds : SameAsAlone(i)

\* C20, as far as it holds: the interceptor stays as built, and every call
\* that ended did so with the records and the return value of the call run
\* alone; a call that the stack overflow of another call ended is left out
C20_EndedCallsIsolated ==
  /\ InterceptorAsBuilt
  /\ \A i \in CallIds : calls[i].pc \in {"done", "crashed"} => SameAsAlone(i)

\* C20: no step of a call writes a field of the interceptor
C20_InterceptorNeverWritten == [][l' = l]_vars

\* C20: two calls with different requests both ended, each after the other
\* had begun, with request and response records of their own
C20_Witness ==
  /\ \A i \in CallIds : calls[i].pc = "done" /\ Len(calls[i].events) = 3
  /\ calls[1].sent # calls[2].sent
  /\ calls[1].returned # calls[2].returned
  /\ C20_EndedCallsIsolated

\* C20: a call overflowed the stack in logResponse while the other call was
\* waiting for the transport
C20_KilledByOtherCall ==
  /\ calls[1].pc = "crashed"
  /\ calls[2].pc = "logged"

(***************************************************************************)
(* C21: a sanitizer built from an empty configuration                      *)
(***************************************************************************)
\* the call was made on a sanitizer built from &SanitizerConfig{} and returned
EmptyConfigCallReturned == call # Nil /\ call.config = EmptySanitizerConfig /\ out # Nil

\* what the sanitizer of the built-in default configuration returns for the call
DefaultResult(c) ==
  IF c.op = "SanitizeBody"
  THEN [text |-> SanitizeBody(NewSanitizer(Nil), c.body, c.contentType).text, headers |-> NoHeader]
  ELSE [text |-> <<>>, headers |-> SanitizeHeaders(NewSanitizer(Nil), c.headers)]

\* C21: a sanitizer built from an empty configuration returns from SanitizeBody
\* and SanitizeHeaders what the sanitizer of the built-in default
\* configuration returns for the same input
C21_EmptyConfigAsDefault ==
  EmptyConfigCallReturned =>
    /\ ~out.overflow
    /\ [text |-> out.text, headers |-> out.headers] = DefaultResult(call)

\* C21: of the empty configuration NewSanitizer fills in the sensitive
\* headers and nothing else
C21_OnlyHeadersFilled ==
  NewSanitizer(EmptySanitizerConfig)
    = [EmptySanitizerConfig EXCEPT !.SensitiveHeaders = DefaultSensitiveHeaders]

\* C21: SanitizeBody of the sanitizer built from the empty configuration
\* returned a JSON body with the password in it
C21_PasswordKept ==
  /\ EmptyConfigCallReturned /\ call.op = "SanitizeBody"
  /\ Contains(out.text, <<"h","u","n","t","e","r","2">>)
  /\ ~Contains(DefaultResult(call).text, <<"h","u","n","t","e","r","2">>)

\* C21: SanitizeHeaders of that sanitizer returned Authorization with the
\* token's ends and no mask
C21_HeaderKept ==
  /\ EmptyConfigCallReturned /\ call.op = "SanitizeHeaders"
  /\ out.headers[<<"A","u","t","h","o","r","i","z","a","t","i","o","n">>] = <<"B","e","a","r","5","6","7","8">>

(***************************************************************************)
(* C22: a Truncate rule on a body of at most MaxBodySize bytes             *)
(***************************************************************************)
\* rule i of the called sanitizer is the rule that decides the call: its
\* condition holds and its action returns, and no earlier rule did so
RuleDecides(i) ==
  /\ CondHolds(CallConfig.BodyRules[i].Condition, call.contentType, call.body, Len(call.body))
  /\ CallConfig.BodyRules[i].Action # BodyActionSanitize
  /\ \A j \in 1..(i - 1) :
       \/ ~CondHolds(CallConfig.BodyRules[j].Condition, call.contentType, call.body, Len(call.body))
       \/ CallConfig.BodyRules[j].Action = BodyActionSanitize

\* SanitizeBody was called with a body of at most MaxBodySize bytes that a
\* Truncate rule decides
SmallBodyTruncated ==
  /\ BodyCallMade
  /\ Len(call.body) <= CallConfig.MaxBodySize
  /\ \E i \in 1..Len(CallConfig.BodyRules) :
       RuleDecides(i) /\ CallConfig.BodyRules[i].Action = BodyActionTruncate

\* C22: when a Truncate rule matches a body of at most MaxBodySize bytes,
\* SanitizeBody returns, and returns what the structural sanitization of
\* the whole body returns
C22_SmallBodySanitized ==
  SmallBodyTruncated =>
    /\ ~out.overflow
    /\ out.text = sanitizeByFormat(CallConfig, call.body, call.contentType)

\* C22: the call of such a body was made and used up the stack
C22_Overflowed == SmallBodyTruncated /\ out.overflow

\* C22: SanitizerNoRegex.SanitizeBody, built with the same rule, uses up the
\* stack on the same body
C22_NoRegexOverflows ==
  SmallBodyTruncated =>
    SanitizeBodyNoRegex([DefaultSanitizerConfigNoRegex EXCEPT
                           !.MaxBodySize = CallConfig.MaxBodySize,
                           !.BodyRules = CallConfig.BodyRules],
                        call.body, call.contentType) = Overflows

\* C22: a body over MaxBodySize that a Truncate rule decides is cut and returned
C22_LargeBodyCut ==
  /\ BodyCallReturned
  /\ Len(call.body) > CallConfig.MaxBodySize
  /\ \E i \in 1..Len(CallConfig.BodyRules) :
       RuleDecides(i) /\ CallConfig.BodyRules[i].Action = BodyActionTruncate
  /\ out.text = Slice(call.body, 0, CallConfig.MaxBodySize) \o TruncationNotice(Len(call.body))

(***************************************************************************)
(* C23: the XML scans of SanitizerNoRegex                                  *)
(***************************************************************************)
\* SanitizerNoRegex.SanitizeBody was called with an XML body under the
\* default configuration
XMLCallNoRegex ==
  /\ call # Nil /\ call.op = "SanitizeBody" /\ call.config = Nil
  /\ call.contentType = XMLType
  /\ alt # Nil

\* C23: for every XML body SanitizerNoRegex.SanitizeBody returns: the loops
\* of replaceXMLTag and replaceXMLAttribute come to an end
C23_XMLScansTerminate == XMLCallNoRegex => alt.fail = "none"

\* C23: the loop of replaceXMLTag never ends on an element named after a
\* sensitive field
C23_TagScanNeverEnds ==
  /\ XMLCallNoRegex
  /\ Contains(call.body, <<"<","p","a","s","s","w","o","r","d",">","s","e","c","r","e","t","<","/","p","a","s","s","w","o","r","d",">">>)
  /\ alt.fail = "hang"
  /\ replaceXMLTag(DefaultSanitizerConfigNoRegex, call.body, <<"p","a","s","s","w","o","r","d">>) = NeverReturns

\* C23: the loop of replaceXMLAttribute never ends on an attribute named
\* after a sensitive field
C23_AttributeScanNeverEnds ==
  /\ XMLCallNoRegex
  /\ Contains(call.body, <<"p","a","s","s","w","o","r","d","=","\"","s","e","c","r","e","t","\"">>)
  /\ alt.fail = "hang"
  /\ replaceXMLTag(DefaultSanitizerConfigNoRegex, call.body, <<"p","a","s","s","w","o","r","d">>) = Completed(call.body)
  /\ replaceXMLAttribute(DefaultSanitizerConfigNoRegex, call.body, <<"p","a","s","s","w","o","r","d">>) = NeverReturns

\* C23: an XML body that holds no sensitive name is returned as it is
C23_PlainXMLReturned ==
  /\ XMLCallNoRegex
  /\ alt = Completed(call.body)

(***************************************************************************)
(* C24: the hand-scanning detectors of SanitizerNoRegex                    *)
(***************************************************************************)
\* SanitizerNoRegex.SanitizeBody was called with a text of several tokens
SeveralTokensCall ==
  /\ call # Nil /\ call.op = "SanitizeBody" /\ call.config = Nil
  /\ call.body \in SeveralTokenTexts
  /\ alt # Nil

\* the words of a text (its parts between single spaces)
Words(text) == Split(text, " ")

\* the bearer tokens of a text: the words that follow the word bearer
BearerTokensOf(text) ==
  {Words(text)[i + 1] : i \in {k \in 1..(Len(Words(text)) - 1) : ToLower(Words(text)[k]) = <<"b","e","a","r","e","r">>}}

\* the API keys of a text: what follows api_key= in a word, when of more than 10 bytes
APIKeysOf(text) ==
  {Slice(Words(text)[i], 8, Len(Words(text)[i])) :
     i \in {k \in 1..Len(Words(text)) :
              HasPrefix(Words(text)[k], <<"a","p","i","_","k","e","y","=">>) /\ Len(Words(text)[k]) > 18}}

\* C24: hideBearerTokens and hideAPIKeys slice within the string they
\* rewrite (the call does not panic), and every bearer token and API key of
\* the text, also one that follows a replacement, is masked
C24_DetectorsInBounds ==
  SeveralTokensCall =>
    /\ alt.fail # "panic"
    /\ \A token \in BearerTokensOf(call.body) \cup APIKeysOf(call.body) :
         ~Contains(alt.text, token)

\* C24: the slice expression of hideBearerTokens was out of range: the end of
\* the second token, found in the text as it came, lies past the end of the
\* text as the first replacement left it
C24_BearerSliceOutOfRange ==
  /\ SeveralTokensCall /\ alt.fail = "panic"
  /\ Cardinality(BearerTokensOf(call.body)) = 2
  /\ hideBearerTokens(DefaultSanitizerConfigNoRegex, call.body) = Panics

\* C24: the slice expression of hideAPIKeys was out of range
C24_APIKeySliceOutOfRange ==
  /\ SeveralTokensCall /\ alt.fail = "panic"
  /\ Cardinality(APIKeysOf(call.body)) = 2
  /\ hideAPIKeys(DefaultSanitizerConfigNoRegex, call.body) = Panics

\* C24: the call returned with the first bearer token masked and the second
\* one, shorter than the mask, left in the text
C24_LaterTokenKept ==
  /\ SeveralTokensCall
  /\ alt = Completed(<<"b","e","a","r","e","r"," ","*","*","*","R","E","D","A","C","T","E","D","*","*","*"," ","b","e","a","r","e","r"," ","d","e","f","g","h"," ","e","n","d">>)

\* C24: the call returned with the first API key masked and the second one left
C24_LaterKeyKept ==
  /\ SeveralTokensCall /\ alt.fail = "none"
  /\ Cardinality(APIKeysOf(call.body)) = 2
  /\ Contains(alt.text, <<"a","p","i","_","k","e","y","=","*","*","*","R","E","D","A","C","T","E","D","*","*","*"," ","a","p","i","_","k","e","y","=","b","b","b","b","b","b","b","b","b","b","b","b","b","b","b">>)

\* C24: a text with one token is returned with the token masked
C24_SingleTokenMasked ==
  /\ SeveralTokensCall
  /\ alt = Completed(<<"b","e","a","r","e","r"," ","*","*","*","R","E","D","A","C","T","E","D","*","*","*"," ","e","n","d">>)

(***************************************************************************)
(* C25: the line scan of sanitizeMultipartForm                             *)
(***************************************************************************)
\* SanitizeBody was called with a multipart body of boundary B and returned
MultipartCallReturned ==
  /\ BodyCallReturned
  /\ call.contentType = MultipartType
  /\ ~looksLikeJSON(call.body) /\ ~looksLikeXML(call.body)

\* a line is a boundary line of the body: the delimiter of the content type
\* after two dashes
IsBoundaryLine(line) == HasPrefix(line, <<"-","-","B">>)

\* the lines of a multipart body as the statement wants them, from line i
\* on; part tells where line i stands ("preamble", "headers" of a part, or
\* its "content"), sensitive whether the part's field name is sensitive
RECURSIVE StatedLines(_, _, _, _, _)
StatedLines(cfg, lines, i, part, sensitive) ==
  IF i > Len(lines) THEN <<>>
  ELSE IF IsBoundaryLine(lines[i])
  THEN <<lines[i]>> \o StatedLines(cfg, lines, i + 1, "headers", FALSE)
  ELSE IF part = "headers" /\ Len(lines[i]) = 0
  THEN <<lines[i]>> \o StatedLines(cfg, lines, i + 1, "content", sensitive)
  ELSE IF part = "headers"
  THEN <<lines[i]>>
         \o StatedLines(cfg, lines, i + 1, "headers",
                        IF Contains(lines[i], <<"C","o","n","t","e","n","t","-","D","i","s","p","o","s","i","t","i","o","n">>)
                        THEN namesSensitiveField(cfg, lines[i],
                                                 FindFrom(MultipartNamePattern, lines[i], 0), sensitive)
                        ELSE sensitive)
  ELSE IF part = "content" /\ sensitive /\ Len(lines[i]) # 0
  THEN <<cfg.Mask>> \o StatedLines(cfg, lines, i + 1, part, sensitive)
  ELSE <<lines[i]>> \o StatedLines(cfg, lines, i + 1, part, sensitive)

\* C25: of a multipart body, every non-empty content line of a sensitive
\* field is returned as the mask, whatever it begins with, and every other
\* line as it came, the lines in their number and order
C25_SensitiveLinesMasked ==
  MultipartCallReturned =>
    Split(out.text, "\n") = StatedLines(CallConfig, Split(call.body, "\n"), 1, "preamble", FALSE)

\* C25: the number of lines is kept, and a line that was not kept is the mask
C25_LinesKeptOrMasked ==
  MultipartCallReturned =>
    /\ Len(Split(out.text, "\n")) = Len(Split(call.body, "\n"))
    /\ \A i \in 1..Len(Split(call.body, "\n")) :
         Split(out.text, "\n")[i] \in {Split(call.body, "\n")[i], CallConfig.Mask}

\* C25: a password that begins with two dashes was returned in clear
C25_DashedValueKept ==
  /\ MultipartCallReturned
  /\ Contains(call.body, <<"n","a","m","e","=","\"","p","a","s","s","w","o","r","d","\"","\n","\n","-","-","h","u","n","t","e","r","2","\n">>)
  /\ out.text = call.body

\* C25: a line of a token that begins with Content- was returned in clear,
\* the token's other line masked
C25_ContentValueKept ==
  /\ MultipartCallReturned
  /\ Contains(call.body, <<"\n","C","o","n","t","e","n","t","-","s","e","c","r","e","t","\n","l","i","n","e","2","\n">>)
  /\ Contains(out.text, <<"\n","C","o","n","t","e","n","t","-","s","e","c","r","e","t","\n","*","*","*","R","E","D","A","C","T","E","D","*","*","*","\n">>)

\* C25: the body of the documentation is returned with the password masked
\* and the user name kept
C25_ExampleMasked ==
  /\ MultipartCallReturned
  /\ Contains(call.body, <<"j","o","h","n","_","d","o","e">>)
  /\ Contains(out.text, <<"\n","\n","j","o","h","n","_","d","o","e","\n">>)
  /\ Contains(out.text, <<"n","a","m","e","=","\"","p","a","s","s","w","o","r","d","\"","\n","\n","*","*","*","R","E","D","A","C","T","E","D","*","*","*","\n","-","-","B","-","-">>)
  /\ Split(out.text, "\n") = StatedLines(CallConfig, Split(call.body, "\n"), 1, "preamble", FALSE)

(***************************************************************************)
(* C26: the declared content type and the look of the body                 *)
(***************************************************************************)
\* SanitizeBody returned from its format-specific part: the body is not
\* empty and no rule decided the call
FormatCallReturned ==
  /\ BodyCallReturned
  /\ Len(call.body) > 0
  /\ applyBodyRules(CallConfig, call.body, call.contentType, 1, 1) = NoRuleReturned

\* the content type is one of the four that SanitizeBody knows
Recognized(contentType) ==
  isJSON(contentType) \/ isXML(contentType) \/ isFormURLEncoded(contentType)
    \/ isMultipartForm(contentType)

\* the sanitization the statement wants: that of the declared type when it is
\* recognized, else the one the look of the body tells
StatedSanitization(cfg, body, contentType) ==
  IF isJSON(contentType) THEN sanitizeJSON(cfg, body)
  ELSE IF isXML(contentType) THEN sanitizeXML(cfg, body)
  ELSE IF isFormURLEncoded(contentType) THEN sanitizeFormURLEncoded(cfg, body)
  ELSE IF isMultipartForm(contentType) THEN sanitizeMultipartForm(cfg, body)
  ELSE IF looksLikeJSON(body) THEN sanitizeJSON(cfg, body)
  ELSE IF looksLikeXML(body) THEN sanitizeXML(cfg, body)
  ELSE sanitizeText(cfg, body)

\* C26: the sanitizer SanitizeBody applies is that of the declared content
\* type when the type is recognized, whatever the body looks like, and the
\* one the body's first and last characters tell only when it is not
C26_DeclaredTypeDecides ==
  FormatCallReturned =>
    out.text = StatedSanitization(CallConfig, call.body, call.contentType)

\* C26, for the bodies whose look does not contradict a recognized type
C26_DecidesUnlessLookDiffers ==
  (/\ FormatCallReturned
   /\ ~(Recognized(call.contentType) /\ ~isJSON(call.contentType) /\ looksLikeJSON(call.body))
   /\ ~(Recognized(call.contentType) /\ ~isJSON(call.contentType) /\ ~isXML(call.contentType)
          /\ looksLikeXML(call.body))) =>
    out.text = StatedSanitization(CallConfig, call.body, call.contentType)

\* C26: a form body that begins with [ and ends with ] was sanitized as JSON
\* text and returned with the password in clear
C26_FormTakenForJSON ==
  /\ FormatCallReturned
  /\ isFormURLEncoded(call.contentType) /\ looksLikeJSON(call.body)
  /\ out.text = call.body
  /\ Contains(out.text, <<"p","a","s","s","w","o","r","d","=","h","u","n","t","e","r","2">>)
  /\ ~Contains(sanitizeFormURLEncoded(CallConfig, call.body), <<"h","u","n","t","e","r","2">>)

\* C26: a body declared XML that looks like JSON was sanitized as JSON
C26_XMLTakenForJSON ==
  /\ FormatCallReturned
  /\ isXML(call.contentType) /\ looksLikeJSON(call.body)
  /\ out.text = sanitizeJSON(CallConfig, call.body)
  /\ out.text # sanitizeXML(CallConfig, call.body)

\* C26: with no content type the look of the body decided: JSON
C26_SniffedJSON ==
  /\ FormatCallReturned
  /\ call.contentType = <<>> /\ looksLikeJSON(call.body)
  /\ out.text = sanitizeJSON(CallConfig, call.body)
  /\ Contains(out.text, DefaultMask)

\* C26: with no content type the look of the body decided: XML
C26_SniffedXML ==
  /\ FormatCallReturned
  /\ call.contentType = <<>> /\ looksLikeXML(call.body)
  /\ out.text = sanitizeXML(CallConfig, call.body)
  /\ Contains(out.text, DefaultMask)

(***************************************************************************)
(* C27: the order of the default rules                                     *)
(***************************************************************************)
\* SanitizeBody of the default configuration was called with a non-empty body
DefaultCallMade == BodyCallMade /\ call.config = Nil

\* how many of the sampled bytes of a body (the first 1000) are of the base64
\* alphabet, and how many bytes are sampled
Base64Share(body) ==
  [valid |-> Cardinality({i \in 1..(IF Len(body) > 1000 THEN 1000 ELSE Len(body)) :
                            body[i] \in base64Chars}),
   sampled |-> IF Len(body) > 1000 THEN 1000 ELSE Len(body)]

\* at least 90% of the sampled bytes are of the base64 alphabet
AtLeast90Percent(share) == share.valid * 10 >= share.sampled * 9

\* more than 90% of them are
Over90Percent(share) == share.valid * 10 > share.sampled * 9

\* what the default rule set is stated to return for a non-empty body,
\* base64 telling whether the body counts as base64 data
StatedOutcome(cfg, body, contentType, base64) ==
  IF isBinaryContent(contentType)
  THEN <<"[","B","i","n","a","r","y"," ","c","o","n","t","e","n","t"," ","-"," ","n","o","t"," ","l","o","g","g","e","d","]">>
  ELSE IF Len(body) > 1024 /\ base64
  THEN <<"[","B","a","s","e","6","4"," ","e","n","c","o","d","e","d"," ","d","a","t","a"," ","-"," ","n","o","t"," ","l","o","g","g","e","d","]">>
  ELSE IF Len(body) > 500 * 1024 /\ (isJSON(contentType) \/ isXML(contentType))
  THEN summarizeBody(cfg, body, contentType, Len(body))
  ELSE IF Len(body) > 100 * 1024
  THEN Slice(body, 0, cfg.MaxBodySize) \o TruncationNotice(Len(body))
  ELSE sanitizeByFormat(cfg, body, contentType)

\* C27: under the default rules a non-empty body is decided in this order:
\* a binary content type gives the binary notice; else more than 1024 bytes
\* with at least 90% of the sampled bytes in the base64 alphabet, exactly 90%
\* included, give the base64 notice; else more than 500KB of JSON or XML
\* give a summary; else more than 100KB are truncated; else the body is
\* sanitized by its format
C27_DefaultRuleOrder ==
  DefaultCallMade =>
    /\ ~out.overflow
    /\ out.text = StatedOutcome(CallConfig, call.body, call.contentType,
                                AtLeast90Percent(Base64Share(call.body)))

\* C27, with the share of base64 bytes that the code asks for: more than 90%
C27_OrderOver90Percent ==
  DefaultCallMade =>
    /\ ~out.overflow
    /\ out.text = StatedOutcome(CallConfig, call.body, call.contentType,
                                Over90Percent(Base64Share(call.body)))

\* C27: a body of 1100 bytes with 900 of the 1000 sampled bytes in the base64
\* alphabet was not taken for base64 data
C27_Exactly90PercentLogged ==
  /\ DefaultCallMade
  /\ Len(call.body) = 1100
  /\ Base64Share(call.body) = [valid |-> 900, sampled |-> 1000]
  /\ out.text = call.body

\* C27: with 901 of the 1000 it was
C27_Over90PercentSkipped ==
  /\ DefaultCallMade
  /\ Base64Share(call.body) = [valid |-> 901, sampled |-> 1000]
  /\ out.text = <<"[","B","a","s","e","6","4"," ","e","n","c","o","d","e","d"," ","d","a","t","a"," ","-"," ","n","o","t"," ","l","o","g","g","e","d","]">>

\* C27: a binary content type decides before the base64 rule
C27_BinaryFirst ==
  /\ DefaultCallMade
  /\ isBinaryContent(call.contentType)
  /\ Len(call.body) > 1024 /\ Over90Percent(Base64Share(call.body))
  /\ out.text = <<"[","B","i","n","a","r","y"," ","c","o","n","t","e","n","t"," ","-"," ","n","o","t"," ","l","o","g","g","e","d","]">>

\* C27: more than 500KB of XML are summarized
C27_LargeXMLSummarized ==
  (DefaultCallMade /\ Len(call.body) > 500 * 1024 /\ isXML(call.contentType)) =>
    out.text = <<"[","L","a","r","g","e"," ","b","o","d","y"," ","-"," ","5","0","0"," ","K","B","]"," ","X","M","L"," ","d","o","c","u","m","e","n","t">>

\* C27: more than 500KB of another type, and more than 100KB of XML, are
\* cut at 100KB
C27_LargeBodyTruncated ==
  (/\ DefaultCallMade
   /\ \/ Len(call.body) > 500 * 1024 /\ call.contentType = CSVType
      \/ Len(call.body) = 100 * 1024 + 1 /\ isXML(call.contentType)) =>
    /\ Len(out.text) = 100 * 1024 + Len(TruncationNotice(Len(call.body)))
    /\ Slice(out.text, 100 * 1024, Len(out.text)) = TruncationNotice(Len(call.body))

\* C27: SanitizerNoRegex, whose default rules have no Summarize rule, cuts
\* more than 500KB of XML at 100KB
C27_NoRegexTruncatesLargeXML ==
  (BothCalled /\ Len(call.body) > 500 * 1024 /\ isXML(call.contentType)) =>
    /\ alt.fail = "none"
    /\ Len(alt.text) = 100 * 1024 + Len(TruncationNotice(Len(call.body)))

(***************************************************************************)
(* C28: XML bodies.  The statement is about elements and attributes, so    *)
(* the body is read as XML: an element that holds text only is an open tag *)
(* <name ...>, text without a tag, and the close tag </name>; an attribute *)
(* is name="value" inside a tag.                                           *)
(***************************************************************************)
\* SanitizeBody was called with an XML body under the default configuration
\* and returned
XMLCallReturned ==
  /\ BodyCallReturned /\ call.config = Nil
  /\ call.contentType = XMLType /\ call.body \in XMLBodies

\* the greatest offset below p at which s holds a byte of stops (-1: none)
LastBefore(s, p, stops) ==
  IF \E q \in 0..(p - 1) : s[q + 1] \in stops
  THEN CHOOSE q \in 0..(p - 1) : s[q + 1] \in stops /\ \A r \in (q + 1)..(p - 1) : s[r + 1] \notin stops
  ELSE -1

\* the element whose open tag begins at offset p: its name, the span of its
\* text, and whether it holds text only and is closed by its own close tag
ElementAt(body, p) ==
  [name |-> Slice(body, p + 1, ScanUntil(body, p + 1, {" ", ">", "/"})),
   from |-> ScanUntil(body, p + 1, {">"}) + 1,
   to |-> ScanUntil(body, ScanUntil(body, p + 1, {">"}) + 1, {"<"}),
   holds |-> /\ ScanUntil(body, p + 1, {">"}) < Len(body)
             /\ ScanUntil(body, ScanUntil(body, p + 1, {">"}) + 1, {"<"})
                  > ScanUntil(body, p + 1, {">"}) + 1
             /\ HasPrefix(Slice(body, ScanUntil(body, ScanUntil(body, p + 1, {">"}) + 1, {"<"}), Len(body)),
                          <<"<", "/">> \o Slice(body, p + 1, ScanUntil(body, p + 1, {" ", ">", "/"}))
                            \o <<">">>)]

\* the elements of the body that hold text only
TextElements(body) ==
  {e \in {ElementAt(body, p) : p \in {q \in 0..(Len(body) - 2) :
                                       body[q + 1] = "<" /\ body[q + 2] \notin {"/", "?", "!"}}} :
     e.holds}

\* the attribute whose = stands at offset p, followed by a double quote
AttributeAt(body, p) ==
  [name |-> Slice(body, LastBefore(body, p, {" ", "<"}) + 1, p),
   from |-> p + 2,
   to |-> ScanUntil(body, p + 2, {"\""}),
   holds |-> /\ LastBefore(body, p, {"<"}) > LastBefore(body, p, {">"})
             /\ ScanUntil(body, p + 2, {"\""}) < Len(body)]

\* the attributes of the tags of the body
Attributes(body) ==
  {a \in {AttributeAt(body, p) : p \in {q \in 1..(Len(body) - 2) :
                                         body[q + 1] = "=" /\ body[q + 2] = "\""}} :
     a.holds}

\* the spans of the body that the statement wants replaced
SensitiveSpans(cfg, body) ==
  {[from |-> e.from, to |-> e.to] :
     e \in {x \in TextElements(body) \cup Attributes(body) : isSensitiveField(cfg, x.name)}}

\* the text with the spans replaced by the mask, the rightmost first
RECURSIVE ReplaceSpans(_, _, _)
ReplaceSpans(text, spans, mask) ==
  IF spans = {} THEN text
  ELSE LET last == CHOOSE x \in spans : \A y \in spans : y.from <= x.from
       IN ReplaceSpans(Slice(text, 0, last.from) \o mask \o Slice(text, last.to, Len(text)),
                       spans \ {last}, mask)

\* C28: of an XML body the text of every element and the value of every
\* attribute whose name the field-name matcher takes for sensitive is
\* returned as the mask, and every other byte as it came
C28_SensitiveXMLMasked ==
  XMLCallReturned =>
    out.text = ReplaceSpans(call.body, SensitiveSpans(CallConfig, call.body), CallConfig.Mask)

\* C28, for the bodies in which the name of every sensitive element is a
\* configured field name, in letters of either case
C28_MaskedWhenNamedExactly ==
  (/\ XMLCallReturned
   /\ \A e \in TextElements(call.body) :
        isSensitiveField(CallConfig, e.name) =>
          \E i \in 1..Len(CallConfig.SensitiveFields) :
            ToLower(e.name) = ToLower(CallConfig.SensitiveFields[i])) =>
    out.text = ReplaceSpans(call.body, SensitiveSpans(CallConfig, call.body), CallConfig.Mask)

\* C28: the text of the element db_password was returned in clear, the text
\* of the element Token masked
C28_ElementKept ==
  /\ XMLCallReturned
  /\ Contains(out.text, <<"<","d","b","_","p","a","s","s","w","o","r","d",">","s","e","c","r","e","t","<","/","d","b","_","p","a","s","s","w","o","r","d",">">>)
  /\ Contains(out.text, <<"<","T","o","k","e","n"," ","k","i","n","d","=","\"","x","\"",">","*","*","*","R","E","D","A","C","T","E","D","*","*","*","<","/","T","o","k","e","n",">">>)
  /\ [name |-> <<"d","b","_","p","a","s","s","w","o","r","d">>, from |-> 19, to |-> 25, holds |-> TRUE] \in TextElements(call.body)
  /\ isSensitiveField(CallConfig, <<"d","b","_","p","a","s","s","w","o","r","d">>)

\* C28: the body of the documentation is returned as the documentation shows
C28_ExampleMasked ==
  /\ XMLCallReturned
  /\ out.text = <<"<","?","x","m","l"," ","v","e","r","s","i","o","n","=","\"","1",".","0","\"","?",">","\n","<","u","s","e","r",">","\n"," "," "," "," ","<","u","s","e","r","n","a","m","e",">","j","o","h","n","<","/","u","s","e","r","n","a","m","e",">","\n"," "," "," "," ","<","p","a","s","s","w","o","r","d",">","*","*","*","R","E","D","A","C","T","E","D","*","*","*","<","/","p","a","s","s","w","o","r","d",">","\n"," "," "," "," ","<","a","p","i","_","k","e","y",">","*","*","*","R","E","D","A","C","T","E","D","*","*","*","<","/","a","p","i","_","k","e","y",">","\n","<","/","u","s","e","r",">">>

\* C28: the value of the attribute password is masked, the attribute id kept
C28_AttributeMasked ==
  /\ XMLCallReturned
  /\ out.text = <<"<","u","s","e","r"," ","p","a","s","s","w","o","r","d","=","\"","*","*","*","R","E","D","A","C","T","E","D","*","*","*","\""," ","i","d","=","\"","7","\"","/",">">>
  /\ Cardinality(Attributes(call.body)) = 2

(***************************************************************************)
(* C29: the mask as replacement text                                       *)
(***************************************************************************)
MaskCallReturned == call \in MaskCalls /\ out # Nil /\ ~out.overflow

RECURSIVE MaskSpansFrom(_, _, _, _)
RECURSIVE MaskSpansAt(_, _, _, _, _)

\* s from offset pos on, every span matched by re replaced by the text of
\* its group 1 and the bytes of mask
MaskSpansFrom(re, s, pos, mask) == MaskSpansAt(re, s, pos, mask, FindFrom(re, s, pos))

\* the same, the leftmost match from pos on starting at p (-1: there is none)
MaskSpansAt(re, s, pos, mask, p) ==
  IF p < 0 THEN Slice(s, pos, Len(s))
  ELSE CHOOSE result \in
         {Slice(s, pos, p) \o GroupText(s, p, m, 1) \o mask
            \o (IF m.end > p THEN MaskSpansFrom(re, s, m.end, mask)
                ELSE IF p < Len(s) THEN <<s[p + 1]>> \o MaskSpansFrom(re, s, p + 1, mask)
                ELSE <<>>) : m \in {MatchAt(re, s, p)}} : TRUE

RECURSIVE MaskedByPatterns(_, _, _, _)

\* text after every detector of names from lo on, in turn, had its spans
\* replaced so
MaskedByPatterns(names, lo, text, mask) ==
  IF nextPattern(names, lo, text) < 0 THEN text
  ELSE CHOOSE result \in
         {MaskedByPatterns(names, k + 1, MaskSpansFrom(Pattern(names[k]), text, 0, mask), mask) :
            k \in {nextPattern(names, lo, text)}} : TRUE

\* the text the pattern detectors of the call are run over: the body, for
\* XML after the loop over the sensitive fields
TextForPatterns ==
  IF isXML(call.contentType) THEN sanitizeXMLFields(CallConfig, 1, call.body) ELSE call.body

\* the mask holds no '$' and does not begin with a letter, a digit or '_'
NoReferenceInMask(mask) ==
  /\ \A i \in 1..Len(mask) : mask[i] # "$"
  /\ Len(mask) > 0 => mask[1] \notin WordChars

\* C29: for every configured mask, every span matched by a pattern detector
\* is replaced in the output by the detector's prefix group, if it has one,
\* and the mask verbatim
C29_MaskIsLiteral ==
  MaskCallReturned =>
    out.text = MaskedByPatterns(CallConfig.SensitivePatterns, 1, TextForPatterns, CallConfig.Mask)

\* C29, for the masks that hold no '$' and do not begin with a letter, a
\* digit or '_'
C29_LiteralWithoutReference ==
  (MaskCallReturned /\ NoReferenceInMask(CallConfig.Mask)) =>
    out.text = MaskedByPatterns(CallConfig.SensitivePatterns, 1, TextForPatterns, CallConfig.Mask)

\* under a mask of letters the token went with its prefix, and no mask stands
\* in its place
C29_PrefixAndMaskLost ==
  /\ MaskCallReturned
  /\ call.config.Mask = <<"R","E","D","A","C","T","E","D">>
  /\ call.body = <<"A","u","t","h","o","r","i","z","a","t","i","o","n",":"," ","B","e","a","r","e","r"," ","s","k","-","1","2","3","4","5","6","7","8","9","0","a","b","c","d","e","f">>
  /\ out.text = <<"A","u","t","h","o","r","i","z","a","t","i","o","n",":"," ">>

\* under the mask "$$" a single '$' stands for the token
C29_DollarsHalved ==
  /\ MaskCallReturned
  /\ call.config.Mask = <<"$","$">>
  /\ call.body = <<"A","u","t","h","o","r","i","z","a","t","i","o","n",":"," ","B","e","a","r","e","r"," ","s","k","-","1","2","3","4","5","6","7","8","9","0","a","b","c","d","e","f">>
  /\ out.text = <<"A","u","t","h","o","r","i","z","a","t","i","o","n",":"," ","B","e","a","r","e","r"," ","$">>

\* under the mask of TestSanitizer_CustomFields the token is replaced by its
\* prefix and the mask
C29_CustomMaskUsed ==
  /\ MaskCallReturned
  /\ call.config.Mask = <<"[","H","I","D","D","E","N","]">>
  /\ call.body = <<"A","u","t","h","o","r","i","z","a","t","i","o","n",":"," ","B","e","a","r","e","r"," ","s","k","-","1","2","3","4","5","6","7","8","9","0","a","b","c","d","e","f">>
  /\ out.text = <<"A","u","t","h","o","r","i","z","a","t","i","o","n",":"," ","B","e","a","r","e","r"," ","[","H","I","D","D","E","N","]">>

\* under a mask of letters the text of the sensitive element is masked, the
\* token in the other element went with its prefix
C29_XMLPrefixLost ==
  /\ MaskCallReturned
  /\ call.config.Mask = <<"R","E","D","A","C","T","E","D">>
  /\ out.text = <<"<","u","s","e","r",">","<","p","a","s","s","w","o","r","d",">","R","E","D","A","C","T","E","D","<","/","p","a","s","s","w","o","r","d",">","<","n","o","t","e",">","<","/","n","o","t","e",">","<","/","u","s","e","r",">">>

(***************************************************************************)
(* Validator.Validate called by several goroutines.  A call reads and      *)
(* writes nothing outside its own locals but for the assignment in         *)
(* WithDetails, so the steps of the calls interleave there.  Nothing       *)
(* orders the assignments of two calls: the variable is left with the map  *)
(* of either.                                                              *)
(***************************************************************************)
ValidatorInit ==
  /\ l = NewLoggingRoundTripper(Nil)
  /\ req = Nil
  /\ sent = Nil
  /\ pc = "idle"
  /\ seen = Nil
  /\ outcome = Nil
  /\ returned = Nil
  /\ events = <<>>
  /\ call = Nil
  /\ out = Nil
  /\ prev = Nil
  /\ alt = Nil
  /\ calls = <<>>
  /\ mapOrder = "increasing"
  /\ ErrValidation = DeclaredErrValidation
  /\ validations = [g \in Goroutines |-> Idle]

\* Validate(data) in goroutine g, up to the call of WithDetails: the input is
\* valid and nil is returned; or it has failed fields and the details map is
\* built; or it is no struct and a wrapped error is returned
Validate(g) ==
  /\ validations[g].pc \in {"idle", "returned"}
  /\ \E data \in Inputs :
       \E err \in {Struct(data)} :
         validations' =
           [validations EXCEPT ![g] =
              IF err = Nil
              THEN [pc |-> "returned", data |-> data, details |-> Nil, err |-> Nil]
              ELSE IF err.type = "ValidationErrors"
              THEN [pc |-> "WithDetails", data |-> data, details |-> detailsOf(err.errors),
                    err |-> Nil]
              ELSE [pc |-> "returned", data |-> data, details |-> Nil,
                    err |-> NewPointer(Wrap(err, "validation_error", "Validation failed", 400))]]
  /\ UNCHANGED <<ErrValidation, l, req, sent, pc, seen, outcome, returned, events, call, out,
                 prev, alt, calls, mapOrder>>

\* errors.ErrValidation.WithDetails(details) in goroutine g, and the return
\* of its result from formatValidationError and Validate
WithDetails(g) ==
  /\ validations[g].pc = "WithDetails"
  /\ ErrValidation' = [ErrValidation EXCEPT !.Details = validations[g].details]
  /\ validations' = [validations EXCEPT ![g].pc = "returned", ![g].err = SentinelPointer]
  /\ UNCHANGED <<l, req, sent, pc, seen, outcome, returned, events, call, out, prev, alt,
                 calls, mapOrder>>

ValidatorNext == \E g \in Goroutines : Validate(g) \/ WithDetails(g)

ValidatorSpec == ValidatorInit /\ [][ValidatorNext]_vars

\* the AppError the error value err points to
AppErrorOf(err) == IF err.to = "ErrValidation" THEN ErrValidation ELSE err.obj

\* goroutine g holds the error Validate returned for an input with failed fields
HoldsValidationError(g) ==
  /\ validations[g].pc = "returned"
  /\ validations[g].err # Nil
  /\ validations[g].data # Nil

\* C30: the error returned for an input carries the field details of that
\* input and of no other, and the package's ErrValidation has the empty
\* Details it was declared with
C30_ErrorsNotShared ==
  /\ \A g \in Goroutines :
       HoldsValidationError(g) =>
         AppErrorOf(validations[g].err).Details = detailsOf(Struct(validations[g].data).errors)
  /\ ErrValidation.Details = Nil

\* at the step in which Validate returns the error for an input, the error
\* carries the details of that input
C30_OwnDetailsAtReturn ==
  [][\A g \in Goroutines :
       (validations[g].pc = "WithDetails" /\ validations'[g].pc = "returned") =>
         /\ validations'[g].err = SentinelPointer
         /\ ErrValidation'.Details = detailsOf(Struct(validations[g].data).errors)]_vars

\* the other fields of ErrValidation stay as declared, and the error for a
\* value that is no struct is an AppError of its own, without details
C30_OnlyDetailsWritten ==
  /\ [ErrValidation EXCEPT !.Details = Nil] = DeclaredErrValidation
  /\ \A g \in Goroutines :
       (validations[g].pc = "returned" /\ validations[g].data = Nil) =>
         /\ validations[g].err.to = "new"
         /\ AppErrorOf(validations[g].err).Details = Nil

\* the error goroutine 1 was returned for an input without Name shows the
\* details of the input of goroutine 2, whose Email is no address
C30_DetailsOfOtherInput ==
  /\ HoldsValidationError(1) /\ HoldsValidationError(2)
  /\ validations[1].data = [Name |-> <<>>, Email |-> <<"b","o","b","@","e","x","a","m","p","l","e",".","c","o","m">>]
  /\ validations[2].data = [Name |-> <<"b","o","b">>, Email |-> <<"b","o","b">>]
  /\ AppErrorOf(validations[1].err).Details = detailsOf(Struct(validations[2].data).errors)
  /\ DOMAIN AppErrorOf(validations[1].err).Details = {<<"e","m","a","i","l">>}

\* no call is under way, the last inputs of both goroutines were valid, and
\* ErrValidation holds the details of an earlier input
C30_SentinelKeepsDetails ==
  /\ \A g \in Goroutines : validations[g].pc = "returned" /\ validations[g].err = Nil
  /\ ErrValidation.Details # Nil

\* Validate returned the error of an input with failed fields
C30_ErrorReturned ==
  \E g \in Goroutines :
    /\ HoldsValidationError(g)
    /\ AppErrorOf(validations[g].err).Details = detailsOf(Struct(validations[g].data).errors)

====
